---------------------------- MODULE Spec2Model ----------------------------
(***************************************************************************)
(* HTML-to-PPT converter: DOM-to-slide compiler.                           *)
(*                                                                         *)
(* Lengths on the slide are integers in thousandths of an inch (the code   *)
(* uses floating-point inches); font sizes are integers in quarters of a   *)
(* point (1px = 0.75pt = 3 quarter points).  Divisions round down.         *)
(* Strings that the code inspects character by character (class names)     *)
(* are tuples of one-character strings.                                    *)
(***************************************************************************)
EXTENDS Integers, Sequences, FiniteSets, TLC

(***************************************************************************)
(* Bounds of the model                                                     *)
(***************************************************************************)
\* largest number of slide containers in a source document
MaxSlides == 3

(***************************************************************************)
(* Generic helpers                                                         *)
(***************************************************************************)
Min(a, b) == IF a <= b THEN a ELSE b
Max(a, b) == IF a >= b THEN a ELSE b
Abs(a) == IF a < 0 THEN 0 - a ELSE a

\* String.prototype.includes on character tuples
Includes(s, p) ==
    \E i \in 0..(Len(s) - Len(p)) :
        \A k \in 1..Len(p) : s[i + k] = p[k]

RECURSIVE Concat(_)
Concat(ss) == IF ss = <<>> THEN <<>> ELSE Head(ss) \o Concat(Tail(ss))

SeqToSet(s) == { s[i] : i \in 1..Len(s) }

(***************************************************************************)
(* Source documents.  A document is the sequence of its element nodes in   *)
(* document order; parent = 0 is the body.  A node carries what the        *)
(* rendering engine reports for it: tag, class tokens, directly owned      *)
(* text, bounding box (px), computed background, radius and font size.     *)
(***************************************************************************)
cMaterialIcons == <<"m", "a", "t", "e", "r", "i", "a", "l", "-", "i", "c", "o", "n", "s">>
cIconWrap == <<"i", "c", "o", "n", "-", "w", "r", "a", "p">>
cCard == <<"c", "a", "r", "d">>

Node(parent, tag, cls, txt, x, y, w, h, bgColor, bgImage, radius, fontPx) ==
    [parent |-> parent, tag |-> tag, cls |-> cls, txt |-> txt,
     x |-> x, y |-> y, w |-> w, h |-> h,
     bgColor |-> bgColor, bgImage |-> bgImage, radius |-> radius,
     fontPx |-> fontPx]

\* height of one slide container in the rendered source (containers stack)
SectionH == 540

\* slide with one heading (tests/e2e/features/F001-upload.test.js, F001-B5),
\* one private-use code point (U+E88A) in an unclassified element, and a
\* gradient box holding a box with a radial gradient over a colour
TplHeading ==
    << Node(0, "section", <<>>, "", 0, 0, 960, SectionH, FALSE, "none", 0, 16),
       Node(1, "h1", <<>>, "Title", 40, 40, 400, 60, FALSE, "none", 0, 32),
       Node(1, "em", <<>>, "pua-e88a", 40, 120, 24, 24, FALSE, "none", 0, 24),
       Node(1, "div", <<>>, "", 40, 200, 300, 100, FALSE, "linear-hex", 0, 16),
       Node(4, "div", <<>>, "", 50, 210, 100, 50, TRUE, "radial", 0, 16) >>

\* slide of the rounded-corner test: a circle and a gradient box
TplShapes ==
    << Node(0, "section", <<>>, "", 0, 0, 960, SectionH, TRUE, "none", 0, 16),
       Node(1, "div", <<>>, "", 100, 250, 100, 100, TRUE, "none", 50, 16),
       Node(1, "div", <<>>, "", 350, 100, 200, 100, FALSE, "linear-rgb", 10, 16) >>

\* rounded card holding a font-glyph icon and a label
TplCard ==
    << Node(0, "section", <<>>, "", 0, 0, 960, SectionH, FALSE, "none", 0, 16),
       Node(1, "div", <<cCard>>, "", 50, 50, 300, 200, TRUE, "none", 8, 16),
       Node(2, "i", <<cMaterialIcons>>, "zzglyph", 60, 60, 24, 24, FALSE, "none", 0, 24),
       Node(2, "span", <<>>, "label", 100, 60, 80, 24, FALSE, "none", 0, 16) >>

\* paragraph whose text comes from its children; a padded wrapper, itself
\* classified as an icon, around a glyph
TplPara ==
    << Node(0, "section", <<>>, "", 0, 0, 960, SectionH, FALSE, "none", 0, 16),
       Node(1, "p", <<>>, "", 50, 300, 400, 30, FALSE, "none", 0, 16),
       Node(2, "span", <<cIconWrap>>, "", 44, 294, 36, 36, FALSE, "none", 0, 24),
       Node(3, "i", <<cMaterialIcons>>, "home", 50, 300, 24, 24, FALSE, "none", 0, 24),
       Node(2, "span", <<>>, "word", 80, 300, 100, 24, FALSE, "none", 0, 16) >>

Templates == << TplHeading, TplShapes, TplCard, TplPara >>

\* place a template as the k-th container of a document of `before' nodes
Place(tpl, before, k) ==
    [ i \in 1..Len(tpl) |->
        [ tpl[i] EXCEPT !.parent = IF tpl[i].parent = 0 THEN 0
                                   ELSE tpl[i].parent + before,
                        !.y = tpl[i].y + (k - 1) * SectionH ] ]

RECURSIVE BuildDoc(_, _, _)
BuildDoc(ts, before, k) ==
    IF ts = <<>> THEN <<>>
    ELSE LET placed == Place(Templates[Head(ts)], before, k)
         IN  placed \o BuildDoc(Tail(ts), before + Len(placed), k + 1)

TemplateSeqs == UNION { [1..n -> 1..Len(Templates)] : n \in 1..MaxSlides }

Docs == { BuildDoc(ts, 0, 1) : ts \in TemplateSeqs }

(***************************************************************************)
(* DOM queries                                                             *)
(***************************************************************************)
\* Element.children, in document order
RECURSIVE ChildrenFrom(_, _, _)
ChildrenFrom(d, n, i) ==
    IF i > Len(d) THEN <<>>
    ELSE IF d[i].parent = n THEN <<i>> \o ChildrenFrom(d, n, i + 1)
    ELSE ChildrenFrom(d, n, i + 1)

Children(d, n) == ChildrenFrom(d, n, 1)

RECURSIVE IsAncestor(_, _, _)
IsAncestor(d, a, n) ==
    IF n = 0 THEN FALSE
    ELSE IF d[n].parent = a THEN TRUE
    ELSE IsAncestor(d, a, d[n].parent)

Descendants(d, n) == { m \in 1..Len(d) : IsAncestor(d, n, m) }

\* Node.textContent: own and descendant text, in document order
RECURSIVE TextContentFrom(_, _, _)
TextContentFrom(d, n, i) ==
    IF i > Len(d) THEN <<>>
    ELSE (IF (i = n \/ IsAncestor(d, n, i)) /\ d[i].txt # ""
          THEN <<d[i].txt>> ELSE <<>>) \o TextContentFrom(d, n, i + 1)

TextContent(d, n) == TextContentFrom(d, n, 1)

\* textContent.trim() as one name; several text runs never name a glyph
GlyphText(d, n) ==
    LET tc == TextContent(d, n)
    IN  IF tc = <<>> THEN "" ELSE IF Len(tc) = 1 THEN tc[1] ELSE "<mixed>"

\* number of characters of the text runs used in the documents
TextLen(t) ==
    CASE t = "" -> 0
      [] t = "Title" -> 5
      [] t = "label" -> 5
      [] t = "word" -> 4
      [] t = "home" -> 4
      [] t = "zzglyph" -> 7
      [] t = "pua-e88a" -> 1
      [] OTHER -> 8

\* text runs matching /^[a-z_]+$/i
WordLike == {"Title", "label", "word", "home", "zzglyph"}

\* text runs made of code points of the private use area
PrivateUse == {"pua-e88a"}

(***************************************************************************)
(* HtmlParser                                                              *)
(***************************************************************************)
iconClassPatterns ==
    << <<"i", "c", "o", "n">>,
       <<"f", "a">>,
       <<"f", "a", "s">>,
       <<"f", "a", "r">>,
       <<"f", "a", "b">>,
       <<"f", "a", "l">>,
       <<"f", "a", "d">>,
       <<"m", "a", "t", "e", "r", "i", "a", "l", "-", "i", "c", "o", "n", "s">>,
       <<"m", "a", "t", "e", "r", "i", "a", "l", "-", "i", "c", "o", "n", "s", "-", "o", "u", "t", "l", "i", "n", "e", "d">>,
       <<"m", "a", "t", "e", "r", "i", "a", "l", "-", "i", "c", "o", "n", "s", "-", "r", "o", "u", "n", "d">>,
       <<"m", "a", "t", "e", "r", "i", "a", "l", "-", "i", "c", "o", "n", "s", "-", "s", "h", "a", "r", "p">>,
       <<"m", "a", "t", "e", "r", "i", "a", "l", "-", "s", "y", "m", "b", "o", "l", "s">>,
       <<"g", "l", "y", "p", "h", "i", "c", "o", "n">>,
       <<"b", "i">>,
       <<"b", "i", "-">>,
       <<"f", "e", "a", "t", "h", "e", "r">>,
       <<"l", "u", "c", "i", "d", "e">>,
       <<"h", "e", "r", "o", "i", "c", "o", "n">>,
       <<"m", "d", "i">>,
       <<"m", "d", "i", "-">>,
       <<"i", "o", "n">>,
       <<"i", "o", "n", "i", "c", "o", "n">>,
       <<"r", "i", "-">>,
       <<"r", "e", "m", "i", "x", "i", "c", "o", "n">> >>

\* element.className: the class tokens joined by single spaces
RECURSIVE ClassStr(_)
ClassStr(cls) ==
    IF cls = <<>> THEN <<>>
    ELSE IF Len(cls) = 1 THEN cls[1]
    ELSE cls[1] \o <<" ">> \o ClassStr(Tail(cls))

RECURSIVE SumLen(_)
SumLen(ts) == IF ts = <<>> THEN 0 ELSE TextLen(Head(ts)) + SumLen(Tail(ts))

isIconElement(d, n) ==
    \/ \E i \in 1..Len(iconClassPatterns) :
           Includes(ClassStr(d[n].cls), iconClassPatterns[i])
    \/ /\ d[n].tag = "i"
       /\ LET text == TextContent(d, n)
          IN  /\ SumLen(text) <= 30
              /\ text # <<>>
              /\ \A k \in 1..Len(text) : text[k] \in WordLike
    \/ d[n].tag = "svg"

getElementType(d, n) ==
    LET tagName == d[n].tag
    IN  IF isIconElement(d, n) THEN "icon"
        ELSE CASE tagName \in {"h1", "h2", "h3", "h4", "h5", "h6"} -> "heading"
               [] tagName = "p" -> "paragraph"
               [] tagName = "span" -> "text"
               [] tagName = "div" -> "container"
               [] tagName = "img" -> "image"
               [] tagName = "table" -> "table"
               [] tagName \in {"ul", "ol"} -> "list"
               [] tagName = "li" -> "listItem"
               [] tagName = "a" -> "link"
               [] tagName = "button" -> "button"
               [] tagName = "svg" -> "shape"
               [] tagName = "canvas" -> "canvas"
               [] OTHER -> "generic"

\* text of the element's own text nodes, trimmed
getTextContent(d, n) == d[n].txt

\* the raw gradient string of the style record (background-image)
backgroundImage(d, n, rendered) == IF rendered THEN d[n].bgImage ELSE "none"

\* `rendered' is FALSE for a document that was parsed but never laid out:
\* its boxes are all zero and its computed styles are empty
extractComputedStyles(d, n, rendered) ==
    [fontSize |-> IF rendered THEN d[n].fontPx ELSE 0,
     backgroundColor |-> rendered /\ d[n].bgColor,
     backgroundImage |-> backgroundImage(d, n, rendered),
     borderRadius |-> IF rendered THEN d[n].radius ELSE 0]

\* variant: the glyph name stays in the record
iconText_Kept(type, text) == text

\* the text of the record: the glyph name of an icon is cleared
iconText(type, text) == IF type = "icon" THEN "" ELSE text

parseElement(d, n, rendered) ==
    LET tagName == d[n].tag
        domRect == IF rendered
                   THEN [x |-> d[n].x, y |-> d[n].y, width |-> d[n].w, height |-> d[n].h]
                   ELSE [x |-> 0, y |-> 0, width |-> 0, height |-> 0]
        \* no box: left/top/width/height of the style, "auto" reads as 0
        rect == IF domRect.width > 0 \/ domRect.height > 0 THEN domRect
                ELSE [x |-> 0, y |-> 0, width |-> 0, height |-> 0]
        text == getTextContent(d, n)
        fontSize == IF rendered /\ d[n].fontPx # 0 THEN d[n].fontPx ELSE 16
        rect2 == IF text # "" /\ rect.width = 0
                 THEN [rect EXCEPT
                         !.width = Min((TextLen(text) * fontSize * 6) \div 10, 1600),
                         !.height = IF rect.height # 0 THEN rect.height
                                    ELSE (fontSize * 3) \div 2]
                 ELSE rect
        type0 == getElementType(d, n)
        type == IF tagName = "svg" THEN "svg" ELSE type0
        svgChild == \E m \in Descendants(d, n) : d[m].tag = "svg"
    IN  [type |-> type,
         tagName |-> tagName,
         text |-> iconText(type, text),
         position |-> rect2,
         styles |-> extractComputedStyles(d, n, rendered),
         children |-> IF tagName \in {"table", "ul", "ol"} THEN <<>>
                      ELSE Children(d, n),
         svgContent |-> tagName = "svg" \/ (type = "icon" /\ svgChild),
         isFontIcon |-> type = "icon" /\ ~svgChild,
         iconImageData |-> "none",
         gradientImageData |-> "none"]

\* slide container selectors in priority order; the documents carry no
\* attributes, so [data-slide] matches nothing
slideSelectors ==
    << [kind |-> "tag", name |-> "section"],
       [kind |-> "class", name |-> <<"s", "l", "i", "d", "e">>],
       [kind |-> "class", name |-> <<"p", "a", "g", "e">>],
       [kind |-> "attr", name |-> <<"d", "a", "t", "a", "-", "s", "l", "i", "d", "e">>],
       [kind |-> "class", name |-> <<"s", "w", "i", "p", "e", "r", "-", "s", "l", "i", "d", "e">>],
       [kind |-> "class", name |-> <<"c", "a", "r", "o", "u", "s", "e", "l", "-", "i", "t", "e", "m">>] >>

Matches(d, n, sel) ==
    CASE sel.kind = "tag" -> d[n].tag = sel.name
      [] sel.kind = "class" -> \E k \in 1..Len(d[n].cls) : d[n].cls[k] = sel.name
      [] OTHER -> FALSE

\* querySelectorAll: the matching nodes in document order
RECURSIVE QueryFrom(_, _, _)
QueryFrom(d, sel, i) ==
    IF i > Len(d) THEN <<>>
    ELSE (IF Matches(d, i, sel) THEN <<i>> ELSE <<>>) \o QueryFrom(d, sel, i + 1)

querySelectorAll(d, sel) == QueryFrom(d, sel, 1)

\* first node under root, in document order, with one of the tags
RECURSIVE FirstWithTag(_, _, _, _)
FirstWithTag(d, root, tag, i) ==
    IF i > Len(d) THEN 0
    ELSE IF IsAncestor(d, root, i) /\ d[i].tag = tag THEN i
    ELSE FirstWithTag(d, root, tag, i + 1)

RECURSIVE FirstTitleClass(_, _, _)
FirstTitleClass(d, root, i) ==
    IF i > Len(d) THEN 0
    ELSE IF IsAncestor(d, root, i)
            /\ Includes(ClassStr(d[i].cls), <<"t", "i", "t", "l", "e">>) THEN i
    ELSE FirstTitleClass(d, root, i + 1)

headingTags == <<"h1", "h2", "h3", "h4", "h5", "h6">>

RECURSIVE TitleFromLevel(_, _, _)
TitleFromLevel(d, root, level) ==
    IF level > 6
    THEN LET t == FirstTitleClass(d, root, 1)
         IN  IF t # 0 THEN TextContent(d, t) ELSE <<"Slide">>
    ELSE LET h == FirstWithTag(d, root, headingTags[level], 1)
         IN  IF h # 0 THEN TextContent(d, h)
             ELSE TitleFromLevel(d, root, level + 1)

extractTitle(d, root) == TitleFromLevel(d, root, 1)

parseSlideElement(d, root, index) ==
    [index |-> index,
     root |-> root,
     title |-> extractTitle(d, root),
     elements |-> Children(d, root)]

RECURSIVE FirstSelector(_, _)
FirstSelector(d, k) ==
    IF k > Len(slideSelectors) THEN <<>>
    ELSE LET found == querySelectorAll(d, slideSelectors[k])
         IN  IF Len(found) > 0 THEN found ELSE FirstSelector(d, k + 1)

extractSlides_AnyMatch(d) ==
    LET found == SelectSeq([ n \in 1..Len(d) |-> n ],
                     LAMBDA n : \E k \in 1..Len(slideSelectors) :
                                    Matches(d, n, slideSelectors[k]))
        slideElements == IF found = <<>> THEN <<0>> ELSE found
    IN  [ i \in 1..Len(slideElements) |->
            parseSlideElement(d, slideElements[i], i - 1) ]

extractSlides(d) ==
    LET found == FirstSelector(d, 1)
        \* nothing matched: the body is the only slide
        slideElements == IF found = <<>> THEN <<0>> ELSE found
    IN  [ i \in 1..Len(slideElements) |->
            parseSlideElement(d, slideElements[i], i - 1) ]

\* the element records of all slides, by the node they were parsed from;
\* slide containers of the documents are siblings, so a node is parsed once
RECURSIVE ParsedUnder(_, _)
ParsedUnder(d, ids) ==
    IF ids = <<>> THEN {}
    ELSE LET n == Head(ids)
         IN  {n}
             \cup (IF d[n].tag \in {"table", "ul", "ol"} THEN {}
                   ELSE ParsedUnder(d, Children(d, n)))
             \cup ParsedUnder(d, Tail(ids))

extractElements(d, ss, rendered) ==
    LET ids == UNION { ParsedUnder(d, ss[i].elements) : i \in 1..Len(ss) }
    IN  [ n \in ids |-> parseElement(d, n, rendered) ]

\* pre-order walk of element records: each element before its children
RECURSIVE PreOrder(_, _)
PreOrder(els, ids) ==
    IF ids = <<>> THEN <<>>
    ELSE <<Head(ids)>> \o PreOrder(els, els[Head(ids)].children)
                       \o PreOrder(els, Tail(ids))

AllInOrder(ss, els) == Concat([ i \in 1..Len(ss) |-> PreOrder(els, ss[i].elements) ])

(***************************************************************************)
(* StyleConverter                                                          *)
(***************************************************************************)
dpi == 96

\* inches (thousandths) of a pixel length
pxToInches(px) == (px * 1000) \div dpi

\* points (quarters) of a pixel length: 1px = 0.75pt
pxToPoints(px) == px * 3

\* computed font sizes are pixel lengths; 0 stands for an absent value
parseFontSize(fontSizePx) ==
    IF fontSizePx = 0 THEN 72
    ELSE Max(32, Min(pxToPoints(fontSizePx), 384))

parseBorderRadius(borderRadiusPx) == borderRadiusPx

\* strings are sequences of characters; the character at a position, or the
\* empty string outside the string
StrAt(s, i) == IF i >= 1 /\ i <= Len(s) THEN SubSeq(s, i, i) ELSE ""

\* String.prototype.includes
StrIncludes(s, p) ==
    \E i \in 0..(Len(s) - Len(p)) : SubSeq(s, i + 1, i + Len(p)) = p

\* String.prototype.indexOf from a position, counted from 1; 0 when absent
RECURSIVE IndexOf(_, _, _)
IndexOf(s, p, i) ==
    IF i + Len(p) - 1 > Len(s) THEN 0
    ELSE IF SubSeq(s, i, i + Len(p) - 1) = p THEN i
    ELSE IndexOf(s, p, i + 1)

LowerCase == "abcdefghijklmnopqrstuvwxyz"
UpperCase == "ABCDEFGHIJKLMNOPQRSTUVWXYZ"
Digits == "0123456789"
HexDigits == "0123456789abcdefABCDEF"

\* every character of the alphabet `from' replaced by its counterpart
RECURSIVE mapChars(_, _, _)
mapChars(s, from, to) ==
    IF s = "" THEN ""
    ELSE (IF IndexOf(from, Head(s), 1) = 0 THEN Head(s)
          ELSE StrAt(to, IndexOf(from, Head(s), 1)))
         \o mapChars(Tail(s), from, to)

toUpperCase(s) == mapChars(s, LowerCase, UpperCase)
toLowerCase(s) == mapChars(s, UpperCase, LowerCase)

\* the position after the longest run, from position i, of characters of
\* an alphabet
RECURSIVE RunEnd(_, _, _)
RunEnd(s, i, alphabet) ==
    IF i <= Len(s) /\ StrIncludes(alphabet, StrAt(s, i))
    THEN RunEnd(s, i + 1, alphabet) ELSE i

\* parseInt of a run of digits
RECURSIVE parseInt(_)
parseInt(s) ==
    IF s = "" THEN 0
    ELSE parseInt(SubSeq(s, 1, Len(s) - 1)) * 10
         + (IndexOf(Digits, StrAt(s, Len(s)), 1) - 1)

\* Number.prototype.toString(16)
RECURSIVE toString16(_)
toString16(n) ==
    IF n < 16 THEN StrAt(HexDigits, n + 1)
    ELSE toString16(n \div 16) \o StrAt(HexDigits, (n % 16) + 1)

\* parseInt(m).toString(16).padStart(2, '0')
hexByte(m) ==
    IF Len(toString16(parseInt(m))) < 2 THEN "0" \o toString16(parseInt(m))
    ELSE toString16(parseInt(m))

\* color.match(/rgba?\((\d+),\s*(\d+),\s*(\d+)/) tried at one position: the
\* three captured runs of digits, or the empty tuple
rgbBlue(s, r, g, b1) ==
    IF RunEnd(s, b1, Digits) > b1
    THEN << r, g, SubSeq(s, b1, RunEnd(s, b1, Digits) - 1) >>
    ELSE <<>>

rgbGreen(s, r, g1) ==
    IF RunEnd(s, g1, Digits) > g1 /\ StrAt(s, RunEnd(s, g1, Digits)) = ","
    THEN rgbBlue(s, r, SubSeq(s, g1, RunEnd(s, g1, Digits) - 1),
                 RunEnd(s, RunEnd(s, g1, Digits) + 1, " "))
    ELSE <<>>

rgbRed(s, r1) ==
    IF RunEnd(s, r1, Digits) > r1 /\ StrAt(s, RunEnd(s, r1, Digits)) = ","
    THEN rgbGreen(s, SubSeq(s, r1, RunEnd(s, r1, Digits) - 1),
                  RunEnd(s, RunEnd(s, r1, Digits) + 1, " "))
    ELSE <<>>

rgbMatchAt(s, i) ==
    IF IndexOf(s, "rgb(", i) = i THEN rgbRed(s, i + 4)
    ELSE IF IndexOf(s, "rgba(", i) = i THEN rgbRed(s, i + 5)
    ELSE <<>>

\* the leftmost match
RECURSIVE rgbMatch(_, _)
rgbMatch(s, i) ==
    IF i > Len(s) THEN <<>>
    ELSE IF rgbMatchAt(s, i) # <<>> THEN rgbMatchAt(s, i)
    ELSE rgbMatch(s, i + 1)

colorNames ==
    [ white |-> "FFFFFF", black |-> "000000", red |-> "FF0000",
      green |-> "00FF00", blue |-> "0000FF", yellow |-> "FFFF00",
      cyan |-> "00FFFF", magenta |-> "FF00FF", gray |-> "808080",
      grey |-> "808080" ]

\* a string result, or null
NullValue == [null |-> TRUE, value |-> ""]
StringValue(v) == [null |-> FALSE, value |-> v]

\* the digits of a three-digit colour doubled; any other string unchanged
expandHex(h) ==
    IF Len(h) = 3
    THEN StrAt(h, 1) \o StrAt(h, 1) \o StrAt(h, 2) \o StrAt(h, 2)
         \o StrAt(h, 3) \o StrAt(h, 3)
    ELSE h

rgbToHex(m) == toUpperCase(hexByte(m[1]) \o hexByte(m[2]) \o hexByte(m[3]))

convertColor(color) ==
    IF color = "" THEN NullValue
    ELSE IF Head(color) = "#"
    THEN StringValue(toUpperCase(expandHex(Tail(color))))
    ELSE IF rgbMatch(color, 1) # <<>>
    THEN StringValue(rgbToHex(rgbMatch(color, 1)))
    ELSE IF toLowerCase(color) \in DOMAIN colorNames
    THEN StringValue(colorNames[toLowerCase(color)])
    ELSE NullValue

\* a number in tenths, or NaN
NaN == [nan |-> TRUE, v |-> 0]
Num(v) == [nan |-> FALSE, v |-> v]

\* the first digit after a decimal point at position q, 0 without one; the
\* values parsed have at most one decimal
fracTenth(s, q) ==
    IF StrAt(s, q) = "." /\ RunEnd(s, q + 1, Digits) > q + 1
    THEN parseInt(StrAt(s, q + 1)) ELSE 0

\* the digits of parseFloat from position p
floatFrom(s, p, sign) ==
    IF RunEnd(s, p, Digits) > p
    THEN Num(sign * (parseInt(SubSeq(s, p, RunEnd(s, p, Digits) - 1)) * 10
                     + fracTenth(s, RunEnd(s, p, Digits))))
    ELSE IF fracTenth(s, p) # 0 \/ (StrAt(s, p) = "." /\ StrAt(s, p + 1) = "0")
    THEN Num(sign * fracTenth(s, p))
    ELSE NaN

\* parseFloat: leading white space, a sign, then the longest numeric prefix
parseFloat(s) ==
    IF StrAt(s, RunEnd(s, 1, " ")) = "-"
    THEN floatFrom(s, RunEnd(s, 1, " ") + 1, -1)
    ELSE IF StrAt(s, RunEnd(s, 1, " ")) = "+"
    THEN floatFrom(s, RunEnd(s, 1, " ") + 1, 1)
    ELSE floatFrom(s, RunEnd(s, 1, " "), 1)

\* a product with a constant; NaN stays NaN
times(value, k) == IF value.nan THEN NaN ELSE Num(value.v * k)

\* points of a font size before clamping, in 1/4000 point (value in tenths)
fontPoints(fontSize, value) ==
    IF StrIncludes(fontSize, "px") THEN times(value, 300)
    ELSE IF StrIncludes(fontSize, "pt") THEN times(value, 400)
    ELSE IF StrIncludes(fontSize, "em") \/ StrIncludes(fontSize, "rem")
    THEN times(value, 4800)
    ELSE IF StrIncludes(fontSize, "%") THEN times(value, 48)
    ELSE IF value.nan \/ value.v = 0 THEN Num(72000)
    ELSE times(value, 400)

\* Math.max(8, Math.min(points, 96)): NaN when points is NaN
clampPoints(points) ==
    IF points.nan THEN NaN ELSE Num(Max(32000, Min(points.v, 384000)))

\* parseFontSize on the text of a font-size value, in 1/4000 point
parseFontSizeText(fontSize) ==
    IF fontSize = "" THEN Num(72000)
    ELSE clampPoints(fontPoints(fontSize, parseFloat(fontSize)))

\* parseBorderRadius on the text of a border-radius value, in tenths of a
\* pixel
parseBorderRadiusText(borderRadius) ==
    IF borderRadius = "" THEN Num(0) ELSE parseFloat(borderRadius)

(***************************************************************************)
(* AnimationConverter: the transition parser.  Times are in tenths of a    *)
(* millisecond.                                                            *)
(***************************************************************************)
easingMap ==
    ("linear" :> "linear") @@ ("ease" :> "easeInOut") @@ ("ease-in" :> "easeIn")
    @@ ("ease-out" :> "easeOut") @@ ("ease-in-out" :> "easeInOut")

\* String.prototype.endsWith
endsWith(s, p) == Len(s) >= Len(p) /\ SubSeq(s, Len(s) - Len(p) + 1, Len(s)) = p

\* String.prototype.trim, for spaces
RECURSIVE trimEnd(_)
trimEnd(s) ==
    IF StrAt(s, Len(s)) = " " THEN trimEnd(SubSeq(s, 1, Len(s) - 1)) ELSE s

trim(s) == trimEnd(SubSeq(s, RunEnd(s, 1, " "), Len(s)))

\* transition.split(','): the pieces between the commas
RECURSIVE splitComma(_)
splitComma(s) ==
    IF IndexOf(s, ",", 1) = 0 THEN << s >>
    ELSE << SubSeq(s, 1, IndexOf(s, ",", 1) - 1) >>
         \o splitComma(SubSeq(s, IndexOf(s, ",", 1) + 1, Len(s)))

\* transition.split(/\s+/): the pieces between the runs of spaces
RECURSIVE splitSpaces(_)
splitSpaces(s) ==
    IF IndexOf(s, " ", 1) = 0 THEN << s >>
    ELSE << SubSeq(s, 1, IndexOf(s, " ", 1) - 1) >>
         \o splitSpaces(SubSeq(s, RunEnd(s, IndexOf(s, " ", 1), " "), Len(s)))

\* part.includes('ms') ? value : value * 1000, the value being in tenths
milliseconds(part) ==
    IF StrIncludes(part, "ms") THEN parseFloat(part).v
    ELSE parseFloat(part).v * 1000

defaultTransData == [property |-> "all", duration |-> 0, delay |-> 0, easing |-> "ease"]

\* one turn of the loop over the parts of a declaration: a time goes to the
\* duration while the duration is 0 and to the delay afterwards
transitionPart(transData, part) ==
    IF endsWith(part, "s") /\ ~parseFloat(part).nan
    THEN (IF transData.duration = 0
          THEN [transData EXCEPT !.duration = milliseconds(part)]
          ELSE [transData EXCEPT !.delay = milliseconds(part)])
    ELSE IF part \in DOMAIN easingMap
    THEN [transData EXCEPT !.easing = easingMap[part]]
    ELSE IF part \notin {"none", "all"} /\ ~StrIncludes(part, "(")
    THEN [transData EXCEPT !.property = part]
    ELSE transData

RECURSIVE transitionParts(_, _)
transitionParts(transData, parts) ==
    IF parts = << >> THEN transData
    ELSE transitionParts(transitionPart(transData, Head(parts)), Tail(parts))

\* the data of one declaration, as a list of one; the empty list for null
parseSingleTransition(transition) ==
    IF transitionParts(defaultTransData, splitSpaces(transition)).duration > 0
    THEN << transitionParts(defaultTransData, splitSpaces(transition)) >>
    ELSE << >>

RECURSIVE pushTransitions(_)
pushTransitions(parts) ==
    IF parts = << >> THEN << >>
    ELSE parseSingleTransition(trim(Head(parts))) \o pushTransitions(Tail(parts))

parseTransition(transition) ==
    IF transition = "" \/ transition = "none" \/ transition = "all 0s ease 0s"
    THEN << >>
    ELSE pushTransitions(splitComma(transition))

\* backgroundImage.match(/linear-gradient\(([^)]+)\)/): the captured text
\* of the leftmost match, "" when nothing matches; the capture ends before
\* the first ")" after the opening parenthesis
RECURSIVE linearMatch(_, _)
linearMatch(s, i) ==
    IF IndexOf(s, "linear-gradient(", i) = 0 THEN ""
    ELSE IF IndexOf(s, ")", IndexOf(s, "linear-gradient(", i) + 16)
              > IndexOf(s, "linear-gradient(", i) + 16
    THEN SubSeq(s, IndexOf(s, "linear-gradient(", i) + 16,
                IndexOf(s, ")", IndexOf(s, "linear-gradient(", i) + 16) - 1)
    ELSE linearMatch(s, IndexOf(s, "linear-gradient(", i) + 1)

\* parts.match(/(\d+)deg/): the number of the leftmost match, else the
\* angle already chosen
RECURSIVE angleMatch(_, _, _)
angleMatch(parts, i, angle) ==
    IF i > Len(parts) THEN angle
    ELSE IF RunEnd(parts, i, Digits) > i
            /\ IndexOf(parts, "deg", RunEnd(parts, i, Digits))
                 = RunEnd(parts, i, Digits)
    THEN parseInt(SubSeq(parts, i, RunEnd(parts, i, Digits) - 1))
    ELSE angleMatch(parts, i + 1, angle)

\* the direction of the gradient, tested in the order of the code
gradientAngle(parts) ==
    IF StrIncludes(parts, "to right") THEN 90
    ELSE IF StrIncludes(parts, "to left") THEN 270
    ELSE IF StrIncludes(parts, "to bottom") THEN 180
    ELSE IF StrIncludes(parts, "to top") THEN 0
    ELSE angleMatch(parts, 1, 90)

\* the end (exclusive) of a match of one alternative of colorRegex at
\* position p, 0 when the alternative does not match there
hexTokenEnd(parts, p) ==
    IF StrAt(parts, p) = "#" /\ RunEnd(parts, p + 1, HexDigits) >= p + 4
    THEN Min(RunEnd(parts, p + 1, HexDigits), p + 9) ELSE 0

rgbTokenEnd(parts, p, open) ==
    IF open # 0 /\ IndexOf(parts, ")", open + 1) > open + 1
    THEN IndexOf(parts, ")", open + 1) + 1 ELSE 0

wordTokenEnd(parts, p, e) ==
    IF e = p THEN 0
    ELSE IF RunEnd(parts, e, " ") > e
            /\ RunEnd(parts, RunEnd(parts, e, " "), Digits) > RunEnd(parts, e, " ")
    THEN RunEnd(parts, RunEnd(parts, e, " "), Digits)
    ELSE e

\* /(#[0-9A-Fa-f]{3,8}|rgba?\([^)]+\)|[a-zA-Z]+(?:\s+\d+)?)/ at position p:
\* the first alternative that matches
colorTokenEnd(parts, p) ==
    IF hexTokenEnd(parts, p) # 0 THEN hexTokenEnd(parts, p)
    ELSE IF rgbTokenEnd(parts, p,
               IF IndexOf(parts, "rgb(", p) = p THEN p + 3
               ELSE IF IndexOf(parts, "rgba(", p) = p THEN p + 4 ELSE 0) # 0
    THEN rgbTokenEnd(parts, p,
               IF IndexOf(parts, "rgb(", p) = p THEN p + 3 ELSE p + 4)
    ELSE wordTokenEnd(parts, p, RunEnd(parts, p, LowerCase \o UpperCase))

directionKeywords == {"to", "right", "left", "top", "bottom", "deg"}

\* what one match adds to the colours: nothing for a direction keyword or
\* for a string convertColor gives no colour for; a match neither begins
\* nor ends with white space, so trim() leaves it as it is
pushColor(colorStr) ==
    IF \E k \in directionKeywords : StrIncludes(colorStr, k) THEN <<>>
    ELSE IF convertColor(colorStr).null \/ convertColor(colorStr).value = ""
    THEN <<>>
    ELSE << convertColor(colorStr).value >>

\* the loop of colorRegex.exec over parts
RECURSIVE gradientColors(_, _, _)
gradientColors(parts, p, colors) ==
    IF p > Len(parts) THEN colors
    ELSE IF colorTokenEnd(parts, p) = 0
    THEN gradientColors(parts, p + 1, colors)
    ELSE gradientColors(parts, colorTokenEnd(parts, p),
             colors \o pushColor(SubSeq(parts, p, colorTokenEnd(parts, p) - 1)))

\* Math.round((i / (n - 1)) * 100) for the stop at index i of n
stopPosition(i, n) == (200 * i + (n - 1)) \div (2 * (n - 1))

NullGradient == [null |-> TRUE, rotate |-> 0, stops |-> <<>>]

gradientConfig(parts, colors) ==
    IF Len(colors) >= 2
    THEN [null |-> FALSE,
          rotate |-> gradientAngle(parts),
          stops |-> [ i \in 1..Len(colors) |->
                        [color |-> colors[i],
                         position |-> stopPosition(i - 1, Len(colors))] ]]
    ELSE NullGradient

\* parseGradientFromStyle on the text of a background-image value
parseLinearGradient(bgText) ==
    IF ~StrIncludes(bgText, "gradient") THEN NullGradient
    ELSE IF linearMatch(bgText, 1) = "" THEN NullGradient
    ELSE gradientConfig(linearMatch(bgText, 1),
                        gradientColors(linearMatch(bgText, 1), 1, <<>>))

\* whether the gradient string yields a gradient fill: the stop list is cut
\* at the first ")", so stops written as rgb(...) yield no colour at all;
\* only linear gradients with at least two hex stops are accepted
parseGradientFromStyle(bgImage) == bgImage = "linear-hex"

\* the shape options derived from a style record; the documents have no
\* border, shadow or opacity
convertShapeStyles(styles) ==
    LET gradientFill == /\ styles.backgroundImage # "none"
                        /\ parseGradientFromStyle(styles.backgroundImage)
        radiusPx == parseBorderRadius(styles.borderRadius)
    IN  [fill |-> IF gradientFill THEN "gradient"
                  ELSE IF styles.backgroundColor THEN "color" ELSE "none",
         line |-> FALSE,
         rectRadius |-> IF radiusPx > 0
                        THEN Max(20, Min(pxToInches(radiusPx), 500))
                        ELSE 0]

\* uniform scale min(slideW/containerW, slideH/containerH) applied to a
\* pixel length, without intermediate rounding
Scaled(px, containerSize, slideW, slideH) ==
    IF slideW * containerSize.height <= slideH * containerSize.width
    THEN (px * slideW) \div containerSize.width
    ELSE (px * slideH) \div containerSize.height

StyleConverter_calculatePosition(position, containerSize, slideW, slideH) ==
    LET scaledWidth == Scaled(containerSize.width, containerSize, slideW, slideH)
        scaledHeight == Scaled(containerSize.height, containerSize, slideW, slideH)
        offsetX == (slideW - scaledWidth) \div 2
        offsetY == (slideH - scaledHeight) \div 2
    IN  [x |-> Scaled(position.x, containerSize, slideW, slideH) + offsetX,
         y |-> Scaled(position.y, containerSize, slideW, slideH) + offsetY,
         w |-> Scaled(position.width, containerSize, slideW, slideH),
         h |-> Scaled(position.height, containerSize, slideW, slideH)]

(***************************************************************************)
(* PptGenerator                                                            *)
(***************************************************************************)
SLIDE_PRESETS(aspectRatio) ==
    CASE aspectRatio = "16:9" -> [width |-> 13333, height |-> 7500]
      [] aspectRatio = "4:3" -> [width |-> 10000, height |-> 7500]
      [] aspectRatio = "wide" -> [width |-> 13333, height |-> 7500]
      [] OTHER -> [width |-> 13333, height |-> 7500]

defaultFontSize == 72

defaultContainerSize == [width |-> 1920, height |-> 1080]

\* a negative origin is moved to 0
clampOrigin(r) == [r EXCEPT !.x = Max(0, r.x), !.y = Max(0, r.y)]

\* a rectangle passing the right edge: an origin at or beyond the edge is
\* moved to 0.5, else the width is cut to at least 0.5
clampRight(r, slideW) ==
    IF r.x + r.w > slideW
    THEN IF r.x >= slideW
         THEN [r EXCEPT !.x = 500]
         ELSE [r EXCEPT !.w = Max(500, slideW - r.x - 100)]
    ELSE r

\* the same for the bottom edge, with 0.5 and at least 0.3
clampBottom(r, slideH) ==
    IF r.y + r.h > slideH
    THEN IF r.y >= slideH
         THEN [r EXCEPT !.y = 500]
         ELSE [r EXCEPT !.h = Max(300, slideH - r.y - 100)]
    ELSE r

\* the final floors of width and height
minimumSize(r) == [r EXCEPT !.w = Max(500, r.w), !.h = Max(300, r.h)]

calculatePosition(position, containerSize, slideW, slideH) ==
    minimumSize(
        clampBottom(
            clampRight(
                clampOrigin(
                    StyleConverter_calculatePosition(position, containerSize,
                                                     slideW, slideH)),
                slideW),
            slideH))

\* text runs of at most three characters holding an icon code point
isIconText(text) ==
    text # "" /\ TextLen(text) <= 3 /\ text \in PrivateUse

\* the texts of an element and its descendants, later joined by spaces
RECURSIVE collectAllText(_, _)
RECURSIVE collectChildrenText(_, _)
collectAllText(els, e) ==
    IF els[e].type = "icon" THEN <<>>
    ELSE (IF els[e].text # "" /\ ~isIconText(els[e].text)
          THEN <<els[e].text>> ELSE <<>>)
         \o collectChildrenText(els, els[e].children)

collectChildrenText(els, ids) ==
    IF ids = <<>> THEN <<>>
    ELSE collectAllText(els, Head(ids)) \o collectChildrenText(els, Tail(ids))

\* characters above code 127 count twice
RECURSIVE effectiveLength(_)
effectiveLength(text) ==
    IF text = <<>> THEN 0
    ELSE (IF Head(text) \in PrivateUse THEN 2 * TextLen(Head(text))
          ELSE TextLen(Head(text)))
         + (IF Len(text) > 1 THEN 1 ELSE 0)
         + effectiveLength(Tail(text))

headingSizes(level) ==
    CASE level = 1 -> 176
      [] level = 2 -> 144
      [] level = 3 -> 112
      [] level = 4 -> 96
      [] level = 5 -> 80
      [] level = 6 -> 72
      [] OTHER -> 96

headingLevel(tagName) ==
    CASE tagName = "h1" -> 1
      [] tagName = "h2" -> 2
      [] tagName = "h3" -> 3
      [] tagName = "h4" -> 4
      [] tagName = "h5" -> 5
      [] tagName = "h6" -> 6
      [] OTHER -> 0

\* width, height and font size of a text box: the box is widened when the
\* rectangle is at the minimum width or the text is long, and given a
\* height from the estimated number of lines when at the minimum height
textBox(position, effLen, fontSize, slideW, slideH) ==
    LET avgCharWidthInches == (fontSize * 550) \div 288
        maxWidth == (slideW * 8) \div 10
        w1 == IF position.w <= 500
              THEN Max(Min(effLen * avgCharWidthInches, maxWidth), 2000)
              ELSE position.w
        textWidth == IF effLen > 30 /\ w1 < 4000 THEN Min(maxWidth, 8000) ELSE w1
        lineHeight == (fontSize * 125) \div 24
        charsPerLine == textWidth \div avgCharWidthInches
        perLine == Max(charsPerLine, 15)
        estimatedLines == (effLen + perLine - 1) \div perLine
        textHeight == IF position.h <= 300
                      THEN Min(Max(lineHeight * Max(estimatedLines, 1), lineHeight),
                               (slideH * 6) \div 10)
                      ELSE position.h
    IN  [w |-> textWidth, h |-> textHeight]

\* one call on the presentation encoder
DrawCall(op, slide, el, kind, text, x, y, w, h, fontSize, rectRadius) ==
    [op |-> op, slide |-> slide, el |-> el, kind |-> kind, text |-> text,
     x |-> x, y |-> y, w |-> w, h |-> h, fontSize |-> fontSize,
     rectRadius |-> rectRadius]

\* variant: the font size is scaled like the rectangle
addTextElement_ScaledFont(els, e, ctx) ==
    LET text == IF els[e].text # "" THEN <<els[e].text>>
                ELSE collectAllText(els, e)
        position == calculatePosition(els[e].position, ctx.containerSize,
                                      ctx.slideW, ctx.slideH)
        fontSize == Scaled(IF els[e].type = "heading"
                           THEN headingSizes(headingLevel(els[e].tagName))
                           ELSE parseFontSize(els[e].styles.fontSize),
                           ctx.containerSize, ctx.slideW, ctx.slideH)
        box == textBox(position, effectiveLength(text), fontSize,
                       ctx.slideW, ctx.slideH)
    IN  IF text = <<>> THEN <<>>
        ELSE << DrawCall("addText", ctx.slide, e, "text", text,
                         position.x, position.y, box.w, box.h, fontSize, 0) >>

\* ctx: the generator's slide number, container size and slide size
addTextElement(els, e, ctx) ==
    LET text == IF els[e].text # "" THEN <<els[e].text>>
                ELSE collectAllText(els, e)
        position == calculatePosition(els[e].position, ctx.containerSize,
                                      ctx.slideW, ctx.slideH)
        fontSize == IF els[e].type = "heading"
                    THEN headingSizes(headingLevel(els[e].tagName))
                    ELSE parseFontSize(els[e].styles.fontSize)
        box == textBox(position, effectiveLength(text), fontSize,
                       ctx.slideW, ctx.slideH)
    IN  IF text = <<>> THEN <<>>
        ELSE << DrawCall("addText", ctx.slide, e, "text", text,
                         position.x, position.y, box.w, box.h, fontSize, 0) >>

addSvgElement(els, e, ctx) ==
    LET position == calculatePosition(els[e].position, ctx.containerSize,
                                      ctx.slideW, ctx.slideH)
        svgW0 == IF position.w > 200 THEN position.w ELSE 500
        svgH0 == IF position.h > 200 THEN position.h ELSE 500
        svgW == IF svgW0 < 300 THEN 400 ELSE svgW0
        svgH == IF svgH0 < 300 THEN 400 ELSE svgH0
    IN  IF ~els[e].svgContent THEN <<>>
        ELSE << DrawCall("addImage", ctx.slide, e, "svg", <<>>,
                         position.x, position.y, svgW, svgH, 0, 0) >>

\* a font icon issues nothing, whatever the rasterization attached to it
addIconElement(els, e, ctx) ==
    IF els[e].svgContent THEN addSvgElement(els, e, ctx) ELSE <<>>

addContainerElement(els, e, ctx) ==
    LET position == calculatePosition(els[e].position, ctx.containerSize,
                                      ctx.slideW, ctx.slideH)
        shapeStyles == convertShapeStyles(els[e].styles)
        radius == parseBorderRadius(els[e].styles.borderRadius)
        \* the pixel radius is compared with, and capped at, 0.5
        rectRadius == IF radius * 2 > 1 THEN 500 ELSE shapeStyles.rectRadius
    IN  IF shapeStyles.fill # "none" \/ shapeStyles.line
        THEN << DrawCall("addShape", ctx.slide, e, "rect", <<>>,
                         position.x, position.y,
                         IF position.w # 0 THEN position.w ELSE 2000,
                         IF position.h # 0 THEN position.h ELSE 1000,
                         0, rectRadius) >>
        ELSE <<>>

addShapeElement(els, e, ctx) ==
    LET position == calculatePosition(els[e].position, ctx.containerSize,
                                      ctx.slideW, ctx.slideH)
        shapeStyles == convertShapeStyles(els[e].styles)
        radius == parseBorderRadius(els[e].styles.borderRadius)
        shapeType == IF /\ radius > 0
                        /\ els[e].position.width = els[e].position.height
                        /\ radius * 2 >= els[e].position.width
                     THEN "ellipse" ELSE "rect"
    IN  << DrawCall("addShape", ctx.slide, e, shapeType, <<>>,
                    position.x, position.y,
                    IF position.w # 0 THEN position.w ELSE 1000,
                    IF position.h # 0 THEN position.h ELSE 1000,
                    0, shapeStyles.rectRadius) >>

\* the calls of the element itself; records of the documents carry no
\* src, tableData or listData, for which the image, table and list
\* handlers return at once
elementCalls(els, e, ctx) ==
    LET type == els[e].type
    IN  CASE type \in {"heading", "paragraph", "text"} -> addTextElement(els, e, ctx)
          [] type \in {"image", "table", "list"} -> <<>>
          [] type = "container" -> addContainerElement(els, e, ctx)
          [] type = "shape" -> addShapeElement(els, e, ctx)
          [] type = "icon" -> addIconElement(els, e, ctx)
          [] type = "svg" -> addSvgElement(els, e, ctx)
          [] OTHER -> IF els[e].text # "" /\ ~isIconText(els[e].text)
                      THEN addTextElement(els, e, ctx) ELSE <<>>

RECURSIVE addElement(_, _, _)
RECURSIVE addElements(_, _, _)
\* variant: the children are handled before the element itself
addElement_ChildrenFirst(els, e, ctx) ==
    addElements(els, els[e].children, ctx) \o elementCalls(els, e, ctx)

addElement(els, e, ctx) ==
    elementCalls(els, e, ctx) \o addElements(els, els[e].children, ctx)

addElements(els, ids, ctx) ==
    IF ids = <<>> THEN <<>>
    ELSE addElement(els, Head(ids), ctx) \o addElements(els, Tail(ids), ctx)

addSlide(els, slideData, ctx) ==
    << DrawCall("addSlide", ctx.slide, 0, "slide", <<>>, 0, 0, 0, 0, 0, 0) >>
    \o addElements(els, slideData.elements, ctx)

(***************************************************************************)
(* HtmlToPptConverter: rasterization of font icons and gradients           *)
(***************************************************************************)
iconSelectorClasses ==
    { <<"m", "a", "t", "e", "r", "i", "a", "l", "-", "i", "c", "o", "n", "s">>,
      <<"m", "a", "t", "e", "r", "i", "a", "l", "-", "i", "c", "o", "n", "s", "-", "o", "u", "t", "l", "i", "n", "e", "d">>,
      <<"m", "a", "t", "e", "r", "i", "a", "l", "-", "i", "c", "o", "n", "s", "-", "r", "o", "u", "n", "d">>,
      <<"m", "a", "t", "e", "r", "i", "a", "l", "-", "i", "c", "o", "n", "s", "-", "s", "h", "a", "r", "p">>,
      <<"m", "a", "t", "e", "r", "i", "a", "l", "-", "s", "y", "m", "b", "o", "l", "s", "-", "o", "u", "t", "l", "i", "n", "e", "d">>,
      <<"m", "a", "t", "e", "r", "i", "a", "l", "-", "s", "y", "m", "b", "o", "l", "s", "-", "r", "o", "u", "n", "d", "e", "d">>,
      <<"m", "a", "t", "e", "r", "i", "a", "l", "-", "s", "y", "m", "b", "o", "l", "s", "-", "s", "h", "a", "r", "p">>,
      <<"f", "a">>,
      <<"f", "a", "s">>,
      <<"f", "a", "r">>,
      <<"f", "a", "b">>,
      <<"b", "i">>,
      <<"m", "d", "i">> }

\* glyph names of the table that are used in the documents
MATERIAL_ICON_PATHS == {"home"}

\* what the environment does to one rasterization
\*   ok           the canvas shows the glyph
\*   empty        the canvas is (nearly) blank: fewer than minPixels pixels
\*   canvasThrow  the canvas code throws
\*   captureThrow reading the box or the style of the DOM node throws
\*   renderThrow  looking up the DOM node throws
IconOutcomes == {"ok", "empty", "canvasThrow", "captureThrow", "renderThrow"}

GradientOutcomes == {"ok", "throw"}

\* results are "png", "svg", "none" (null), or "throw" for an exception
\* that leaves the function
renderIconWithCanvas(outcome) == IF outcome = "ok" THEN "png" ELSE "none"

\* variant: the table of vector paths is not consulted
captureElementToImage_NoTable(text, outcome) ==
    IF outcome = "captureThrow" THEN "none" ELSE renderIconWithCanvas(outcome)

captureElementToImage(text, outcome) ==
    IF outcome = "captureThrow" THEN "none"
    ELSE LET canvasResult == renderIconWithCanvas(outcome)
         IN  IF canvasResult # "none" THEN canvasResult
             ELSE IF text \in MATERIAL_ICON_PATHS THEN "svg"
             ELSE "none"

\* the nodes selected as icon elements, in document order
RECURSIVE IconElementsFrom(_, _)
IconElementsFrom(d, i) ==
    IF i > Len(d) THEN <<>>
    ELSE (IF \/ \E k \in 1..Len(d[i].cls) : d[i].cls[k] \in iconSelectorClasses
             \/ d[i].tag = "i" /\ Includes(ClassStr(d[i].cls), <<"i", "c", "o", "n">>)
          THEN <<i>> ELSE <<>>) \o IconElementsFrom(d, i + 1)

RECURSIVE FirstAtPosition(_, _, _)
FirstAtPosition(d, nodes, position) ==
    IF nodes = <<>> THEN 0
    ELSE IF /\ Abs(d[Head(nodes)].x - position.x) < 5
            /\ Abs(d[Head(nodes)].y - position.y) < 5
         THEN Head(nodes)
    ELSE FirstAtPosition(d, Tail(nodes), position)

\* the element record has no name of its glyph, so the DOM node is found
\* by position only
renderFontIconToImage(d, element, outcome) ==
    LET iconEl == FirstAtPosition(d, IconElementsFrom(d, 1), element.position)
    IN  IF outcome = "renderThrow" THEN "throw"
        ELSE IF iconEl # 0 THEN captureElementToImage(GlyphText(d, iconEl), outcome)
        ELSE "none"

renderGradientToImage(element, outcome) ==
    IF element.styles.backgroundImage \in {"linear-rgb", "linear-hex"}
    THEN IF outcome = "throw" THEN "throw" ELSE "png"
    ELSE "none"

\* one turn of the loop body around a rasterization: the payload to attach
\* ("none": leave the record alone) and whether an exception leaves the loop
\* variant: the rasterization is not wrapped in try/catch
captureIconsInElements_NoCatch(result) ==
    [image |-> IF result = "throw" THEN "none" ELSE result,
     raised |-> result = "throw"]

captureIconsInElements(result) ==
    [image |-> IF result = "throw" THEN "none" ELSE result, raised |-> FALSE]

captureGradientsInElements(result) ==
    [image |-> IF result = "throw" THEN "none" ELSE result, raised |-> FALSE]

IsIconEligible(element) == element.type = "icon" /\ element.isFontIcon

\* no record has hasGradientText: the parser never sets it
IsGradientEligible(element) ==
    element.type = "container" /\ element.styles.backgroundImage # "none"

RECURSIVE SelectSeq2(_, _, _)
SelectSeq2(ids, els, kind) ==
    IF ids = <<>> THEN <<>>
    ELSE (IF (kind = "icon" /\ IsIconEligible(els[Head(ids)]))
             \/ (kind = "gradient" /\ IsGradientEligible(els[Head(ids)]))
          THEN <<Head(ids)>> ELSE <<>>) \o SelectSeq2(Tail(ids), els, kind)

\* the elements a pass rasterizes, in the order it visits them
Work(ss, els, kind) == SelectSeq2(AllInOrder(ss, els), els, kind)

\* variant: the rasterization is started without being awaited
CanStartNext_NoAwait(pending) == TRUE

\* `await': the next rasterization starts only when none is pending
CanStartNext(pending) == pending = {}

(***************************************************************************)
(* HtmlToPptConverter: the slides array of an embedded script              *)
(***************************************************************************)
\* most object literals in the slides array of a script
MaxObjects == 3

\* most colour stops of a gradient
MaxStops == 3

\* the characters that delimit and escape strings
SingleQuote == "'"

\* the grave accent that delimits template literals (U+0060)
Backtick == "grave"

DoubleQuote == "\""

Backslash == "\\"

\* object literals of a slides array, as characters; none has an id, title
\* or type key
SlideObjects ==
    [ plain   |-> <<"{", "t", ":", "1", "}">>,
      dq      |-> <<"{", "t", ":", DoubleQuote, "]", DoubleQuote, "}">>,
      sq      |-> <<"{", "t", ":", SingleQuote, "}", "{", SingleQuote, "}">>,
      tpl     |-> <<"{", "t", ":", Backtick, "[", Backtick, "}">>,
      escq    |-> <<"{", "t", ":", DoubleQuote, Backslash, DoubleQuote, "]", DoubleQuote, "}">>,
      nested  |-> <<"{", "t", ":", "[", "{", "}", "]", "}">>,
      escbs   |-> <<"{", "t", ":", DoubleQuote, Backslash, Backslash, DoubleQuote, "}">>,
      subst   |-> <<"{", "t", ":", Backtick, "$", "{", "a", "}", "]", Backtick, "}">>,
      mixq    |-> <<"{", "t", ":", SingleQuote, DoubleQuote, "]", SingleQuote, "}">>,
      esctick |-> <<"{", "t", ":", Backtick, Backslash, Backtick, "]", Backtick, "}">> ]

ObjectKinds == DOMAIN SlideObjects

\* how the script introduces the array: a declaration, an assignment to
\* window.slides, or no array at all
ScriptHeads == {"const", "let", "var", "assign", "none"}

\* the objects of the array joined by commas
RECURSIVE JoinObjects(_)
JoinObjects(objects) ==
    IF objects = <<>> THEN <<>>
    ELSE SlideObjects[Head(objects)]
         \o (IF Len(objects) > 1 THEN <<",">> ELSE <<>>)
         \o JoinObjects(Tail(objects))

\* the text of the script from the opening bracket of the array on: the
\* array, closed or not, and the statement after it
ScriptText(h) ==
    <<"[">> \o JoinObjects(h.objects)
    \o (IF h.closed THEN <<"]">> ELSE <<>>)
    \o <<";", "a", "[", "0", "]", ";">>

\* /(?:const|let|var)\s+slides\s*=\s*\[/
slidesMatch(h) == h.head \in {"const", "let", "var"}

\* the character at a position, "" beyond the end (undefined)
CharAt(text, i) == IF i >= 1 /\ i <= Len(text) THEN text[i] ELSE ""

\* first loop: the end of the array, by counting brackets outside strings
\* and templates; positions are counted from 1
RECURSIVE scanBrackets(_, _)
scanBrackets(text, st) ==
    IF ~(st.bracketCount > 0 /\ st.endIndex <= Len(text)) THEN st
    ELSE
      LET char == text[st.endIndex]
          next == [st EXCEPT !.endIndex = @ + 1]
      IN  scanBrackets(text,
            IF st.escaping THEN [next EXCEPT !.escaping = FALSE]
            ELSE IF char = Backslash /\ st.inString THEN [next EXCEPT !.escaping = TRUE]
            ELSE IF char = Backtick /\ ~st.inString
                 THEN [next EXCEPT !.inTemplate = ~st.inTemplate,
                                   !.templateDepth = IF st.inTemplate THEN 0 ELSE 1]
            ELSE IF st.inTemplate
                 THEN (IF char = "$" /\ CharAt(text, st.endIndex + 1) = "{"
                       THEN [st EXCEPT !.templateDepth = @ + 1, !.endIndex = @ + 2]
                       ELSE IF char = "}" /\ st.templateDepth > 1
                       THEN [next EXCEPT !.templateDepth = @ - 1]
                       ELSE next)
            ELSE IF char \in {DoubleQuote, SingleQuote} /\ ~st.inString
                 THEN [next EXCEPT !.inString = TRUE, !.stringChar = char]
            ELSE IF char = st.stringChar /\ st.inString
                 THEN [next EXCEPT !.inString = FALSE, !.stringChar = ""]
            ELSE IF st.inString THEN next
            ELSE IF char = "[" THEN [next EXCEPT !.bracketCount = @ + 1]
            ELSE IF char = "]" THEN [next EXCEPT !.bracketCount = @ - 1]
            ELSE next)

\* the state of the first loop after the opening bracket at position 1
scanStart ==
    [bracketCount |-> 1, endIndex |-> 2, inString |-> FALSE, stringChar |-> "",
     escaping |-> FALSE, inTemplate |-> FALSE, templateDepth |-> 0]

\* the record pushed for a top-level object without id, title or type
slideInfo(slideIndex) ==
    [id |-> slideIndex, title |-> <<"Slide">>, type |-> "null",
     index |-> slideIndex]

\* second loop: the objects at the first level of the located array; a
\* quote closes a string unless the character before it is a backslash
RECURSIVE scanObjects(_, _)
scanObjects(str, st) ==
    IF st.i > Len(str) THEN st
    ELSE
      LET char == str[st.i]
          next == [st EXCEPT !.i = @ + 1]
      IN  scanObjects(str,
            IF ~st.inTpl /\ char \in {DoubleQuote, SingleQuote} /\ ~st.inStr
                 THEN [next EXCEPT !.inStr = TRUE, !.strChar = char]
            ELSE IF /\ ~st.inTpl
                    /\ char = st.strChar /\ st.inStr
                    /\ CharAt(str, st.i - 1) # Backslash
                 THEN [next EXCEPT !.inStr = FALSE, !.strChar = ""]
            ELSE IF char = Backtick /\ ~st.inStr
                 THEN [next EXCEPT !.inTpl = ~st.inTpl]
            ELSE IF st.inStr \/ st.inTpl THEN next
            ELSE IF char = "[" THEN [next EXCEPT !.arrayDepth = @ + 1]
            ELSE IF char = "]" THEN [next EXCEPT !.arrayDepth = @ - 1]
            ELSE IF char = "{"
                 THEN [next EXCEPT !.objectDepth = @ + 1,
                                   !.currentObjectStart =
                                       IF st.arrayDepth = 1 /\ st.objectDepth = 0
                                       THEN st.i ELSE @]
            ELSE IF char = "}"
                 THEN (IF /\ st.arrayDepth = 1 /\ st.objectDepth = 1
                          /\ st.currentObjectStart # -1
                       THEN [next EXCEPT !.slidesInfo = Append(@, slideInfo(Len(@))),
                                         !.currentObjectStart = -1,
                                         !.objectDepth = @ - 1]
                       ELSE [next EXCEPT !.objectDepth = @ - 1])
            ELSE next)

objectsStart ==
    [i |-> 1, arrayDepth |-> 0, objectDepth |-> 0, inStr |-> FALSE,
     strChar |-> "", inTpl |-> FALSE, currentObjectStart |-> -1,
     slidesInfo |-> <<>>]

\* null
NoSlidesData == [ok |-> FALSE, slidesInfo |-> <<>>]

\* the array located by the first loop, <<>> when there is no declaration
\* or the brackets do not balance
slidesArrayStr(h) ==
    LET end == scanBrackets(ScriptText(h), scanStart)
    IN  IF slidesMatch(h) /\ end.bracketCount = 0
        THEN SubSeq(ScriptText(h), 1, end.endIndex - 1)
        ELSE <<>>

slidesInfoOf(str) == scanObjects(str, objectsStart).slidesInfo

parseSlidesArrayFromHtml(h) ==
    IF slidesArrayStr(h) = <<>> THEN NoSlidesData
    ELSE IF Len(slidesInfoOf(slidesArrayStr(h))) > 0
    THEN [ok |-> TRUE, slidesInfo |-> slidesInfoOf(slidesArrayStr(h))]
    ELSE NoSlidesData

(***************************************************************************)
(* HtmlToPptConverter: slides rendered one at a time by a script           *)
(***************************************************************************)
cSlide == <<"s", "l", "i", "d", "e">>

\* the frame of a scripted presentation: one .slide container whose content
\* the script replaces for every slide
DynDoc ==
    << Node(0, "div", <<cSlide>>, "", 0, 0, 960, SectionH, TRUE, "none", 0, 16),
       Node(1, "h2", <<>>, "Title", 40, 40, 400, 60, FALSE, "none", 0, 28) >>

\* length of window.slides in the frame: var and an assignment make the
\* array a property of the window, const and let do not; a script whose
\* array is not closed does not run
winSlidesLength(h) ==
    IF h.head \in {"var", "assign"} /\ h.closed THEN Len(h.objects) ELSE 0

\* renderAndParse takes the slides from the parsed array when it has more
\* than one entry, else from window.slides when that has more than one,
\* else from the static document
usesParsedData(h) ==
    /\ parseSlidesArrayFromHtml(h).ok
    /\ Len(parseSlidesArrayFromHtml(h).slidesInfo) > 1

usesDynamicSlides(h) == ~usesParsedData(h) /\ winSlidesLength(h) > 1

\* what happens in one turn of an extraction loop
\*   ok           the slide is rendered and its container parsed
\*   renderThrow  win.renderSlide(i) throws
\*   parseThrow   parsing the container throws
\*   noElement    the document has no .slide element after rendering
DynOutcomes == {"ok", "renderThrow", "parseThrow", "noElement"}

\* document.querySelector('.slide')
slideElement(d) == Head(querySelectorAll(d, slideSelectors[2]))

\* the blank slide that stands in for a slide that could not be extracted
blankSlide(i) ==
    [index |-> i, root |-> -1, title |-> <<"Slide">>, elements |-> <<>>]

\* slidesData[i]?.title || slideData.title
titledSlide(slideData, title) ==
    [slideData EXCEPT !.title = IF title # <<>> THEN title ELSE @]

\* the slides one turn of extractSlidesFromParsedData pushes
parsedDataTurn(d, slidesData, i, outcome) ==
    IF outcome = "ok"
    THEN << titledSlide(parseSlideElement(d, slideElement(d), i),
                        slidesData[i + 1].title) >>
    ELSE << blankSlide(i) >>

\* the slides one turn of extractDynamicSlides pushes; the objects of
\* window.slides carry no title
dynamicTurn(d, i, outcome) ==
    IF outcome = "ok"
    THEN << titledSlide(parseSlideElement(d, slideElement(d), i), <<>>) >>
    ELSE <<>>

(***************************************************************************)
(* State                                                                   *)
(***************************************************************************)
VARIABLES
    doc,            \* the rendered source document
    aspect,         \* options.aspectRatio of the conversion
    phase,          \* position of convert(): load, settle, fonts, scripts,
                    \* render, icons, gradients, parsed, generating,
                    \* exporting, done, failed
    slides,         \* slide records of renderAndParse
    elements,       \* element records, by node
    cursor,         \* next entry of the current pass's work list
    inflight,       \* elements whose rasterization has not settled
    attempted,      \* elements whose rasterization was started
    lastRaster,     \* element and outcome of the last settled rasterization
    raised,         \* an exception left a rasterization pass
    lastContainerSize, \* container size kept by renderAndParse
    calls,          \* calls made on the presentation encoder, in order
    slideIdx,       \* slides already added by generatePpt
    geo,            \* geometry of one rectangle (specification SpecGeom)
    html,           \* the embedded script of the source document
    unit,           \* input and result of one function application
    frameFailed,    \* an error left the try block of the frame's onload
    progress,       \* calls of onProgress and firings of the loop's timer
    iframe,         \* the hidden frame of renderAndParse in the host document
    app             \* the page: convert button, conversions, pending timers

vars == << doc, aspect, phase, slides, elements, cursor, inflight, attempted,
           lastRaster, raised, lastContainerSize, calls, slideIdx, geo, html, unit,
           frameFailed, progress, iframe, app >>

pipeVars == << doc, aspect, phase, slides, elements, cursor, inflight,
               attempted, lastRaster, raised, lastContainerSize, calls,
               slideIdx, html, unit, frameFailed, progress, iframe, app >>

AspectRatios == {"16:9", "4:3"}

\* the hidden frame: appended to the host document by renderAndParse, its
\* load event not yet handled
HiddenFrame == [attached |-> TRUE, removed |-> 0]

NoFrame == [attached |-> FALSE, removed |-> 0]

\* variant: the frame is left in the host document
removeChild_Noop(frame) == frame

\* document.body.removeChild(iframe)
removeChild(frame) == [attached |-> FALSE, removed |-> frame.removed + 1]

\* the page after construction: the convert button enabled, no HTML, no
\* conversion started, no timer pending, the status hidden
AppIdle ==
    [disabled |-> FALSE, currentHtml |-> "", running |-> 0, timers |-> 0,
     finished |-> 0, status |-> "hidden", sections |-> FALSE,
     previews |-> 0, hideTimers |-> 0]

NoSize == [width |-> 0, height |-> 0]

\* inner size of the hidden frame the document is rendered in
frameSize == [width |-> 1920, height |-> 1080]

GeoIdle == [stage |-> "idle"]

\* a document without a script that declares slides
NoScript == [head |-> "none", objects |-> <<>>, closed |-> TRUE]

UnitIdle == [stage |-> "idle"]

Init ==
    /\ doc \in Docs
    /\ aspect \in AspectRatios
    /\ phase = "load"
    /\ slides = <<>>
    /\ elements = <<>>
    /\ cursor = 1
    /\ inflight = {}
    /\ attempted = {}
    /\ lastRaster = [el |-> 0, outcome |-> "none"]
    /\ raised = FALSE
    /\ lastContainerSize = NoSize
    /\ calls = <<>>
    /\ slideIdx = 0
    /\ geo = GeoIdle
    /\ html = NoScript
    /\ unit = UnitIdle
    /\ frameFailed = FALSE
    /\ progress = << >>
    /\ iframe = HiddenFrame
    /\ app = AppIdle

(***************************************************************************)
(* renderAndParse                                                          *)
(***************************************************************************)
\* onload of the hidden frame: the document is written into the frame and
\* the first delay (1000ms) is awaited
FrameLoad ==
    /\ phase = "load"
    /\ phase' = "settle"
    /\ UNCHANGED << doc, aspect, slides, elements, cursor, inflight, attempted,
                    lastRaster, raised, lastContainerSize, calls, slideIdx,
                    geo, html, unit, frameFailed, progress, iframe, app >>

\* the first delay is over: the readiness of the fonts is raced against a
\* delay when the frame's document has the fonts interface, else the second
\* delay (500ms) is awaited at once
SettleTimer ==
    /\ phase = "settle"
    /\ \E hasFonts \in BOOLEAN :
         phase' = IF hasFonts THEN "fonts" ELSE "scripts"
    /\ UNCHANGED << doc, aspect, slides, elements, cursor, inflight, attempted,
                    lastRaster, raised, lastContainerSize, calls, slideIdx,
                    geo, html, unit, frameFailed, progress, iframe, app >>

\* variant: the readiness of the fonts is awaited alone
FontRace_NoTimer == {"fonts"}

\* the promises raced while waiting for the fonts: fonts.ready and the
\* 2000ms delay
FontRace == {"fonts", "timer"}

\* the race settles with the first of its members that settles; a
\* rejection is caught and the second delay awaited all the same
FontWaitOver(member) ==
    /\ phase = "fonts"
    /\ member \in FontRace
    /\ phase' = "scripts"
    /\ UNCHANGED << doc, aspect, slides, elements, cursor, inflight, attempted,
                    lastRaster, raised, lastContainerSize, calls, slideIdx,
                    geo, html, unit, frameFailed, progress, iframe, app >>

\* fonts.ready resolves
FontsReady == FontWaitOver("fonts")

\* fonts.ready rejects
FontsReject == FontWaitOver("fonts")

\* the 2000ms delay of the race is over
FontTimeout == FontWaitOver("timer")

\* the second delay is over
ScriptTimer ==
    /\ phase = "scripts"
    /\ phase' = "render"
    /\ UNCHANGED << doc, aspect, slides, elements, cursor, inflight, attempted,
                    lastRaster, raised, lastContainerSize, calls, slideIdx,
                    geo, html, unit, frameFailed, progress, iframe, app >>

\* an error is raised in the try block before the slides are extracted
\* (writing the document into the frame, reading the frame's document):
\* the catch parses the source string without layout and resolves
FrameFails ==
    /\ phase \in {"load", "render"}
    /\ LET ss == extractSlides(doc)
       IN  /\ slides' = ss
           /\ elements' = extractElements(doc, ss, FALSE)
    /\ phase' = "parsed"
    /\ frameFailed' = TRUE
    /\ iframe' = removeChild(iframe)
    /\ UNCHANGED << doc, aspect, cursor, inflight, attempted, lastRaster,
                    raised, lastContainerSize, calls, slideIdx, geo, html,
                    unit, progress, app >>

\* the frame has loaded and the waits are over: static extraction
ExtractSlides ==
    /\ phase = "render"
    /\ ~usesParsedData(html) /\ ~usesDynamicSlides(html)
    /\ LET ss == extractSlides(doc)
       IN  /\ slides' = ss
           /\ elements' = extractElements(doc, ss, TRUE)
    /\ phase' = "icons"
    /\ cursor' = 1
    /\ UNCHANGED << doc, aspect, inflight, attempted, lastRaster, raised,
                    lastContainerSize, calls, slideIdx, geo, html, unit, frameFailed, progress, iframe, app >>

\* the catch of renderAndParse: the document is parsed again without layout
Fallback ==
    LET ss == extractSlides(doc)
    IN  /\ slides' = ss
        /\ elements' = extractElements(doc, ss, FALSE)
        /\ phase' = "parsed"
        /\ raised' = TRUE
        /\ inflight' = {}
        /\ iframe' = removeChild(iframe)

\* captureIconsInElements reaches the next font icon and awaits its image
IconStart ==
    /\ phase = "icons"
    /\ CanStartNext(inflight)
    /\ cursor <= Len(Work(slides, elements, "icon"))
    /\ LET e == Work(slides, elements, "icon")[cursor]
       IN  /\ inflight' = inflight \cup {e}
           /\ attempted' = attempted \cup {e}
    /\ cursor' = cursor + 1
    /\ UNCHANGED << doc, aspect, phase, slides, elements, lastRaster, raised,
                    lastContainerSize, calls, slideIdx, geo, html, unit, frameFailed, progress, iframe, app >>

IconSettle ==
    /\ phase = "icons"
    /\ \E e \in inflight, outcome \in IconOutcomes :
         LET r == captureIconsInElements(
                      renderFontIconToImage(doc, elements[e], outcome))
         IN  /\ lastRaster' = [el |-> e, outcome |-> outcome]
             /\ IF r.raised
                THEN /\ Fallback
                     /\ UNCHANGED << doc, aspect, cursor, attempted,
                                     lastContainerSize, calls, slideIdx, geo,
                                     html, unit, frameFailed, progress, app >>
                ELSE /\ elements' = IF r.image # "none"
                                    THEN [elements EXCEPT ![e].iconImageData = r.image]
                                    ELSE elements
                     /\ inflight' = inflight \ {e}
                     /\ UNCHANGED << doc, aspect, phase, slides, cursor,
                                     attempted, raised, lastContainerSize,
                                     calls, slideIdx, geo, html, unit, frameFailed, progress, iframe, app >>

\* captureFontIcons has returned; captureGradients begins
IconsDone ==
    /\ phase = "icons"
    /\ inflight = {}
    /\ cursor > Len(Work(slides, elements, "icon"))
    /\ phase' = "gradients"
    /\ cursor' = 1
    /\ UNCHANGED << doc, aspect, slides, elements, inflight, attempted,
                    lastRaster, raised, lastContainerSize, calls, slideIdx, geo, html, unit, frameFailed, progress, iframe, app >>

GradientStart ==
    /\ phase = "gradients"
    /\ CanStartNext(inflight)
    /\ cursor <= Len(Work(slides, elements, "gradient"))
    /\ LET e == Work(slides, elements, "gradient")[cursor]
       IN  /\ inflight' = inflight \cup {e}
           /\ attempted' = attempted \cup {e}
    /\ cursor' = cursor + 1
    /\ UNCHANGED << doc, aspect, phase, slides, elements, lastRaster, raised,
                    lastContainerSize, calls, slideIdx, geo, html, unit, frameFailed, progress, iframe, app >>

GradientSettle ==
    /\ phase = "gradients"
    /\ \E e \in inflight, outcome \in GradientOutcomes :
         LET r == captureGradientsInElements(
                      renderGradientToImage(elements[e], outcome))
         IN  /\ lastRaster' = [el |-> e, outcome |-> outcome]
             /\ IF r.raised
                THEN /\ Fallback
                     /\ UNCHANGED << doc, aspect, cursor, attempted,
                                     lastContainerSize, calls, slideIdx, geo,
                                     html, unit, frameFailed, progress, app >>
                ELSE /\ elements' = IF r.image # "none"
                                    THEN [elements EXCEPT ![e].gradientImageData = r.image]
                                    ELSE elements
                     /\ inflight' = inflight \ {e}
                     /\ UNCHANGED << doc, aspect, phase, slides, cursor,
                                     attempted, raised, lastContainerSize,
                                     calls, slideIdx, geo, html, unit, frameFailed, progress, iframe, app >>

\* captureGradients has returned: the container size of the frame is kept,
\* the frame removed and the slides handed to convert()
GradientsDone ==
    /\ phase = "gradients"
    /\ inflight = {}
    /\ cursor > Len(Work(slides, elements, "gradient"))
    /\ lastContainerSize' = frameSize
    /\ iframe' = removeChild(iframe)
    /\ phase' = "parsed"
    /\ UNCHANGED << doc, aspect, slides, elements, cursor, inflight, attempted,
                    lastRaster, raised, calls, slideIdx, geo, html, unit, frameFailed, progress, app >>

(***************************************************************************)
(* generatePpt                                                             *)
(***************************************************************************)
\* the generator of a conversion: slide size of the aspect ratio and the
\* container size kept by renderAndParse, 1920x1080 when there is none
GeneratorCtx(i) ==
    [slide |-> i,
     containerSize |-> IF lastContainerSize = NoSize THEN defaultContainerSize
                       ELSE lastContainerSize,
     slideW |-> SLIDE_PRESETS(aspect).width,
     slideH |-> SLIDE_PRESETS(aspect).height]

\* variant: the loop index is off by one
LoopSlide_OffByOne(ss, i) == ss[Max(1, i - 1)]

\* the slide record the loop of generatePpt takes in its i-th turn
LoopSlide(ss, i) == ss[i]

\* a call of the progress callback, with the number of slides added so far
onProgress(current, total, added) ==
    [op |-> "onProgress", current |-> current, total |-> total, added |-> added]

\* the 10ms timer of the loop fired
timerFired(added) ==
    [op |-> "timer", current |-> 0, total |-> 0, added |-> added]

\* variant: the loop reports its zero-based index
loopProgress_ZeroBased(i, total) == onProgress(i, total, i)

\* the report of the loop's turn i, counted from 0
loopProgress(i, total) == onProgress(i + 1, total, i)

\* the report after the loop
finalProgress(total, added) == onProgress(total, total, added)

\* one turn of the loop: the slide is added, then the timer is awaited
AddNextSlide ==
    /\ slideIdx < Len(slides)
    /\ calls' = calls \o addSlide(elements, LoopSlide(slides, slideIdx + 1),
                                  GeneratorCtx(slideIdx + 1))
    /\ slideIdx' = slideIdx + 1

\* convert() resumes with the slides and generatePpt runs to its first await
GeneratePptStart ==
    /\ phase = "parsed"
    /\ IF Len(slides) > 0
       THEN /\ AddNextSlide
            /\ progress' = Append(progress, loopProgress(slideIdx, Len(slides)))
            /\ phase' = "generating"
       ELSE /\ progress' = Append(progress, finalProgress(Len(slides), slideIdx))
            /\ phase' = "exporting"
            /\ UNCHANGED << calls, slideIdx >>
    /\ UNCHANGED << doc, aspect, slides, elements, cursor, inflight, attempted,
                    lastRaster, raised, lastContainerSize, geo, html, unit, frameFailed, iframe, app >>

\* the 10ms timer fired and slides remain
SlideTimer ==
    /\ phase = "generating"
    /\ AddNextSlide
    /\ progress' = progress \o << timerFired(slideIdx),
                                   loopProgress(slideIdx, Len(slides)) >>
    /\ UNCHANGED << doc, aspect, phase, slides, elements, cursor, inflight,
                    attempted, lastRaster, raised, lastContainerSize, geo, html, unit, frameFailed, iframe, app >>

\* the timer fired after the last slide: exportToBlob is awaited
ExportStart ==
    /\ phase = "generating"
    /\ slideIdx = Len(slides)
    /\ progress' = progress \o << timerFired(slideIdx),
                                   finalProgress(Len(slides), slideIdx) >>
    /\ phase' = "exporting"
    /\ UNCHANGED << doc, aspect, slides, elements, cursor, inflight, attempted,
                    lastRaster, raised, lastContainerSize, calls, slideIdx, geo, html, unit, frameFailed, iframe, app >>

\* exportToBlob settles with the file, or fails
ExportSettle ==
    /\ phase = "exporting"
    /\ phase' \in {"done", "failed"}
    /\ UNCHANGED << doc, aspect, slides, elements, cursor, inflight, attempted,
                    lastRaster, raised, lastContainerSize, calls, slideIdx, geo, html, unit, frameFailed, progress, iframe, app >>

Next ==
    \/ FrameLoad
    \/ SettleTimer
    \/ FontsReady
    \/ FontsReject
    \/ FontTimeout
    \/ ScriptTimer
    \/ FrameFails
    \/ ExtractSlides
    \/ IconStart
    \/ IconSettle
    \/ IconsDone
    \/ GradientStart
    \/ GradientSettle
    \/ GradientsDone
    \/ GeneratePptStart
    \/ SlideTimer
    \/ ExportStart
    \/ ExportSettle

Spec == Init /\ [][Next]_vars

\* renderAndParse from the loading of the frame to the extraction of the
\* slides.  The delays elapse and the code after a settled await goes on;
\* nothing is assumed of fonts.ready, which may never settle, nor of failures
NextFonts ==
    \/ FrameLoad
    \/ SettleTimer
    \/ FontsReady
    \/ FontsReject
    \/ FontTimeout
    \/ ScriptTimer
    \/ FrameFails
    \/ ExtractSlides

SpecFonts ==
    /\ Init
    /\ [][NextFonts]_vars
    /\ WF_vars(FontTimeout)
    /\ WF_vars(ScriptTimer)

(***************************************************************************)
(* Conversion of a scripted presentation                                   *)
(***************************************************************************)
\* arrays of at most MaxObjects objects of three kinds
DynObjectSeqs ==
    UNION { [1..n -> {"plain", "dq", "escbs"}] : n \in 0..MaxObjects }

DynScripts ==
    { [head |-> hd, objects |-> o, closed |-> TRUE] :
        hd \in {"const", "assign", "none"}, o \in DynObjectSeqs }

\* the frame has loaded the document and the waits are over
InitDyn ==
    /\ doc = DynDoc
    /\ aspect = "16:9"
    /\ phase = "render"
    /\ slides = <<>>
    /\ elements = <<>>
    /\ cursor = 1
    /\ inflight = {}
    /\ attempted = {}
    /\ lastRaster = [el |-> 0, outcome |-> "none"]
    /\ raised = FALSE
    /\ lastContainerSize = NoSize
    /\ calls = <<>>
    /\ slideIdx = 0
    /\ frameFailed = FALSE
    /\ progress = << >>
    /\ iframe = HiddenFrame
    /\ app = AppIdle
    /\ geo = GeoIdle
    /\ html \in DynScripts
    /\ unit = UnitIdle

\* extractSlidesFromParsedData or extractDynamicSlides is entered; the
\* waits for renderSlide to appear are over, with or without success
DynExtractStart ==
    /\ phase = "render"
    /\ usesParsedData(html) \/ usesDynamicSlides(html)
    /\ \E hasRenderSlide \in BOOLEAN :
         unit' = [stage |-> IF usesParsedData(html) THEN "parsedData"
                            ELSE "dynamic",
                  hasRenderSlide |-> hasRenderSlide,
                  totalSlides |-> IF usesParsedData(html)
                                  THEN Len(parseSlidesArrayFromHtml(html).slidesInfo)
                                  ELSE winSlidesLength(html),
                  i |-> 0]
    /\ phase' = "extract"
    /\ UNCHANGED << doc, aspect, slides, elements, cursor, inflight, attempted,
                    lastRaster, raised, lastContainerSize, calls, slideIdx,
                    geo, html, frameFailed, progress, iframe, app >>

\* one turn of the extraction loop
DynExtractSlide ==
    /\ phase = "extract"
    /\ unit.i < unit.totalSlides
    /\ \E outcome \in DynOutcomes :
         /\ outcome = "renderThrow" => unit.hasRenderSlide
         /\ slides' = slides \o
                IF unit.stage = "parsedData"
                THEN parsedDataTurn(doc, parseSlidesArrayFromHtml(html).slidesInfo,
                                    unit.i, outcome)
                ELSE dynamicTurn(doc, unit.i, outcome)
    /\ unit' = [unit EXCEPT !.i = @ + 1]
    /\ UNCHANGED << doc, aspect, phase, elements, cursor, inflight, attempted,
                    lastRaster, raised, lastContainerSize, calls, slideIdx,
                    geo, html, frameFailed, progress, iframe, app >>

\* the slides renderAndParse keeps when a loop is over: those of
\* window.slides are used only when more than one was extracted
extractedSlides(d, stage, found) ==
    IF stage = "dynamic" /\ Len(found) <= 1 THEN extractSlides(d) ELSE found

\* the loop is over and the slides are handed to the rasterization passes
DynExtractDone ==
    /\ phase = "extract"
    /\ unit.i = unit.totalSlides
    /\ slides' = extractedSlides(doc, unit.stage, slides)
    /\ elements' = extractElements(doc, slides', TRUE)
    /\ phase' = "icons"
    /\ cursor' = 1
    /\ UNCHANGED << doc, aspect, inflight, attempted, lastRaster,
                    raised, lastContainerSize, calls, slideIdx, geo, html,
                    unit, frameFailed, progress, iframe, app >>

NextDyn ==
    \/ DynExtractStart
    \/ DynExtractSlide
    \/ DynExtractDone
    \/ ExtractSlides
    \/ IconsDone
    \/ GradientsDone
    \/ GeneratePptStart
    \/ SlideTimer
    \/ ExportStart
    \/ ExportSettle

SpecDyn == InitDyn /\ [][NextDyn]_vars

(***************************************************************************)
(* parseSlidesArrayFromHtml applied to one source string                   *)
(***************************************************************************)
\* no conversion is under way
NoConversion ==
    /\ doc = <<>>
    /\ aspect = "16:9"
    /\ phase = "idle"
    /\ slides = <<>>
    /\ elements = <<>>
    /\ cursor = 1
    /\ inflight = {}
    /\ attempted = {}
    /\ lastRaster = [el |-> 0, outcome |-> "none"]
    /\ raised = FALSE
    /\ lastContainerSize = NoSize
    /\ calls = <<>>
    /\ slideIdx = 0
    /\ frameFailed = FALSE
    /\ progress = << >>
    /\ iframe = NoFrame
    /\ geo = GeoIdle

convVars == << doc, aspect, phase, slides, elements, cursor, inflight,
              attempted, lastRaster, raised, lastContainerSize, calls,
              slideIdx, frameFailed, progress, iframe >>

\* arrays of at most MaxObjects objects
ObjectSeqs == UNION { [1..n -> ObjectKinds] : n \in 0..MaxObjects }

\* scripts that declare the array with const, closed or not, and scripts
\* of every kind with an array of two plain objects
ScanInputs ==
    { [head |-> "const", objects |-> o, closed |-> c] :
        o \in ObjectSeqs, c \in BOOLEAN }
    \cup { [head |-> hd, objects |-> <<"plain", "plain">>, closed |-> TRUE] :
             hd \in ScriptHeads }

InitScan ==
    /\ NoConversion
    /\ app = AppIdle
    /\ html \in ScanInputs
    /\ unit = [stage |-> "input"]

ParseSlidesArray ==
    /\ unit.stage = "input"
    /\ unit' = [stage |-> "scanned",
                located |-> slidesArrayStr(html),
                parsed |-> parseSlidesArrayFromHtml(html)]
    /\ UNCHANGED << convVars, geo, html, app >>

NextScan == ParseSlidesArray

SpecScan == InitScan /\ [][NextScan]_vars

(***************************************************************************)
(* HtmlParser applied to one document                                      *)
(***************************************************************************)
\* a slide container for entry k of slideSelectors; 0 is a div that no
\* selector matches
ContainerOf(k) ==
    Node(0,
         IF k # 0 /\ slideSelectors[k].kind = "tag"
         THEN slideSelectors[k].name ELSE "div",
         IF k # 0 /\ slideSelectors[k].kind = "class"
         THEN <<slideSelectors[k].name>> ELSE <<>>,
         "", 0, 0, 960, SectionH, FALSE, "none", 0, 16)

ContainerKinds == {0, 1, 2, 3, 6}

\* what a container holds before its paragraph
TitleLayouts == {"none", "h1", "h2h1", "subtitleH3", "title"}

TitleNodes(layout, c) ==
    CASE layout = "h1" ->
           << Node(c, "h1", <<>>, "Main", 40, 40, 400, 60, FALSE, "none", 0, 32) >>
      [] layout = "h2h1" ->
           << Node(c, "h2", <<>>, "Sub", 40, 40, 400, 40, FALSE, "none", 0, 24),
              Node(c, "h1", <<>>, "Main", 40, 90, 400, 60, FALSE, "none", 0, 32) >>
      [] layout = "subtitleH3" ->
           << Node(c, "p", << <<"s", "u", "b", "t", "i", "t", "l", "e">> >>,
                   "Tag", 40, 40, 400, 30, FALSE, "none", 0, 16),
              Node(c, "h3", <<>>, "Head", 40, 80, 400, 40, FALSE, "none", 0, 20) >>
      [] layout = "title" ->
           << Node(c, "div", << <<"t", "i", "t", "l", "e">> >>,
                   "Name", 40, 40, 400, 60, FALSE, "none", 0, 28) >>
      [] OTHER -> <<>>

\* class attributes of the paragraph: none, lead, description, bi-alarm,
\* material-icons
ParaClasses ==
    { <<>>,
      << <<"l", "e", "a", "d">> >>,
      << <<"d", "e", "s", "c", "r", "i", "p", "t", "i", "o", "n">> >>,
      << <<"b", "i", "-", "a", "l", "a", "r", "m">> >>,
      << cMaterialIcons >> }

\* the containers in document order, each with its title nodes and one
\* paragraph
RECURSIVE BuildParseDoc(_, _, _, _)
BuildParseDoc(kinds, layout, pcls, d) ==
    IF kinds = <<>> THEN d
    ELSE BuildParseDoc(Tail(kinds), layout, pcls,
             d \o << ContainerOf(Head(kinds)) >>
               \o TitleNodes(layout, Len(d) + 1)
               \o << Node(Len(d) + 1, "p", pcls, "Body", 40, 200, 400, 30,
                          FALSE, "none", 0, 16) >>)

ParseDocs ==
    { BuildParseDoc(kinds, layout, pcls, <<>>) :
        kinds \in UNION { [1..n -> ContainerKinds] : n \in 1..2 },
        layout \in TitleLayouts,
        pcls \in ParaClasses }

InitParse ==
    /\ doc \in ParseDocs
    /\ aspect = "16:9"
    /\ phase = "idle"
    /\ slides = <<>>
    /\ elements = <<>>
    /\ cursor = 1
    /\ inflight = {}
    /\ attempted = {}
    /\ lastRaster = [el |-> 0, outcome |-> "none"]
    /\ raised = FALSE
    /\ lastContainerSize = NoSize
    /\ calls = <<>>
    /\ slideIdx = 0
    /\ frameFailed = FALSE
    /\ progress = << >>
    /\ iframe = NoFrame
    /\ app = AppIdle
    /\ geo = GeoIdle
    /\ html = NoScript
    /\ unit = [stage |-> "input"]

\* HtmlParser.extractSlides on a document that has no layout
ParseDocument ==
    /\ unit.stage = "input"
    /\ slides' = extractSlides(doc)
    /\ elements' = extractElements(doc, slides', FALSE)
    /\ unit' = [stage |-> "parsed"]
    /\ UNCHANGED << doc, aspect, phase, cursor, inflight, attempted,
                    lastRaster, raised, lastContainerSize, calls, slideIdx,
                    geo, html, frameFailed, progress, iframe, app >>

NextParse == ParseDocument

SpecParse == InitParse /\ [][NextParse]_vars

(***************************************************************************)
(* StyleConverter applied to one value                                     *)
(***************************************************************************)
\* colour stops as they are written, with the colour each one denotes
StopColors ==
    ("#10b981" :> "10B981") @@ ("#059669" :> "059669")
    @@ ("rgb(255, 0, 0)" :> "FF0000") @@ ("rgba(0, 0, 255, 0.5)" :> "0000FF")

StopSeqs == UNION { [1..n -> DOMAIN StopColors] : n \in 2..MaxStops }

GradientDirs == {"", "to bottom, ", "to right, ", "135deg, "}

RECURSIVE JoinStops(_)
JoinStops(stops) ==
    IF Len(stops) = 1 THEN stops[1]
    ELSE stops[1] \o ", " \o JoinStops(Tail(stops))

GradientInputs ==
    { [stage |-> "input", fn |-> "gradient", stops |-> st,
       text |-> "linear-gradient(" \o dir \o JoinStops(st) \o ")"] :
        dir \in GradientDirs, st \in StopSeqs }

ColorTexts ==
    [ hex3 |-> { "#" \o a \o b \o c : a \in {"0", "a", "F"},
                                      b \in {"0", "a", "F"},
                                      c \in {"0", "b", "C"} },
      hex6 |-> { "#FF0000", "#10b981", "#ABCDEF", "#00ff7f" },
      hex8 |-> { "#11223344", "#ff000080" },
      rgb |-> { "rgb(" \o r \o ", " \o g \o ", " \o b \o ")" :
                  r \in {"0", "128", "255"}, g \in {"0", "9", "255"},
                  b \in {"0", "16", "255"} },
      rgba |-> { "rgba(255, 128, 0, 0.5)", "rgba(255,128,0,0.5)",
                 "rgba(0, 0, 0, 0)" },
      named |-> { "red", "White" },
      invalid |-> { "", "zz", "rgb(1,2)", "#12" } ]

ColorInputs ==
    { [stage |-> "input", fn |-> "color", kind |-> k, text |-> t] :
        k \in DOMAIN ColorTexts, t \in UNION { ColorTexts[j] : j \in DOMAIN ColorTexts } }

InitStyle ==
    /\ NoConversion
    /\ app = AppIdle
    /\ html = NoScript
    /\ unit \in { u \in ColorInputs : u.text \in ColorTexts[u.kind] }
                  \cup GradientInputs

ConvertColor ==
    /\ unit.stage = "input" /\ unit.fn = "color"
    /\ unit' = [unit EXCEPT !.stage = "done"] @@ [result |-> convertColor(unit.text)]
    /\ UNCHANGED << convVars, geo, html, app >>

ParseGradient ==
    /\ unit.stage = "input" /\ unit.fn = "gradient"
    /\ unit' = [unit EXCEPT !.stage = "done"]
                 @@ [result |-> parseLinearGradient(unit.text)]
    /\ UNCHANGED << convVars, geo, html, app >>

NextStyle == ConvertColor \/ ParseGradient

SpecStyle == InitStyle /\ [][NextStyle]_vars

(***************************************************************************)
(* StyleConverter applied to one length                                    *)
(***************************************************************************)
\* a number or something else, followed by a unit or not, and keywords
LengthTexts ==
    { n \o u : n \in {"", "0", "2", "16", "24", "200", "1.5", ".5", "-5", "abc"},
               u \in {"", "px", "pt", "em", "rem", "%", "vw"} }
    \cup {"medium", "large", "inherit", " 16px"}

InitLength ==
    /\ NoConversion
    /\ app = AppIdle
    /\ html = NoScript
    /\ unit \in { [stage |-> "input", fn |-> f, text |-> t] :
                    f \in {"fontSize", "borderRadius"}, t \in LengthTexts }

ParseFontSize ==
    /\ unit.stage = "input" /\ unit.fn = "fontSize"
    /\ unit' = [unit EXCEPT !.stage = "done"]
                 @@ [result |-> parseFontSizeText(unit.text)]
    /\ UNCHANGED << convVars, geo, html, app >>

ParseBorderRadius ==
    /\ unit.stage = "input" /\ unit.fn = "borderRadius"
    /\ unit' = [unit EXCEPT !.stage = "done"]
                 @@ [result |-> parseBorderRadiusText(unit.text)]
    /\ UNCHANGED << convVars, geo, html, app >>

NextLength == ParseFontSize \/ ParseBorderRadius

SpecLength == InitLength /\ [][NextLength]_vars

(***************************************************************************)
(* The transition parser applied to one value                              *)
(***************************************************************************)
TransitionProperties == {"", "all ", "opacity ", "none "}
TransitionDurations == {"0s", "0.3s", "1s", "300ms", "0ms"}
TransitionTails ==
    {"", " ease", " ease 0s", " ease 1s", " linear 0.5s", " 0s", " ease-out 200ms"}
TransitionTexts ==
    { p \o d \o t : p \in TransitionProperties, d \in TransitionDurations,
                    t \in TransitionTails }
    \cup {"", "none", "all", "opacity 0.3s, transform 0.5s ease-out",
          "all 0s, opacity 1s"}

InitTransition ==
    /\ NoConversion
    /\ app = AppIdle
    /\ html = NoScript
    /\ unit \in { [stage |-> "input", fn |-> "transition", text |-> t] :
                    t \in TransitionTexts }

ParseTransition ==
    /\ unit.stage = "input" /\ unit.fn = "transition"
    /\ unit' = [unit EXCEPT !.stage = "done"]
               @@ [result |-> parseTransition(unit.text)]
    /\ UNCHANGED << convVars, geo, html, app >>

NextTransition == ParseTransition

SpecTransition == InitTransition /\ [][NextTransition]_vars

(***************************************************************************)
(* App: the page around the converter.  A click on a disabled button       *)
(* dispatches no event; convert() of a started conversion resolves or      *)
(* rejects at some later time.                                             *)
(***************************************************************************)
\* most conversions started, and most previews generated, in a behaviour
MaxConversions == 3
MaxPreviews == 2

HtmlInputs == {"", "<section>"}

\* handleHtmlInput: blank input hides the preview; other input is kept and
\* previewed, the status being hidden by a timer after a preview that
\* succeeded
handleHtmlInput ==
    /\ app.previews < MaxPreviews
    /\ \E input \in HtmlInputs, previewed \in BOOLEAN :
         app' = IF input = "" THEN [app EXCEPT !.sections = FALSE]
                ELSE IF previewed
                THEN [app EXCEPT !.currentHtml = input, !.sections = TRUE,
                                 !.status = "success",
                                 !.previews = @ + 1, !.hideTimers = @ + 1]
                ELSE [app EXCEPT !.currentHtml = input, !.status = "error",
                                 !.previews = @ + 1]
    /\ UNCHANGED << convVars, geo, html, unit >>

\* the timer of generatePreview
PreviewTimer ==
    /\ app.hideTimers > 0
    /\ app' = [app EXCEPT !.hideTimers = @ - 1, !.status = "hidden"]
    /\ UNCHANGED << convVars, geo, html, unit >>

\* variant: the click is handled whatever the state of the button
CanClick_Always(button) == TRUE

\* the click handler of the convert button runs for an enabled button
CanClick(button) == ~button.disabled

\* convertAndDownload up to its await: without HTML an error is shown, else
\* the button is disabled and the conversion started
convertAndDownload ==
    /\ CanClick(app)
    /\ app.finished + app.running < MaxConversions
    /\ app' = IF app.currentHtml = "" THEN [app EXCEPT !.status = "error"]
              ELSE [app EXCEPT !.disabled = TRUE, !.status = "processing",
                               !.running = @ + 1]
    /\ UNCHANGED << convVars, geo, html, unit >>

\* convert() resolved and the file was handed to the browser: the timer
\* that enables the button again is started
ConvertResolves ==
    /\ app.running > 0
    /\ app' = [app EXCEPT !.running = @ - 1, !.finished = @ + 1,
                          !.status = "success", !.timers = @ + 1]
    /\ UNCHANGED << convVars, geo, html, unit >>

\* convert() rejected, or the download raised: the catch enables the button
ConvertRejects ==
    /\ app.running > 0
    /\ app' = [app EXCEPT !.running = @ - 1, !.finished = @ + 1,
                          !.status = "error", !.disabled = FALSE]
    /\ UNCHANGED << convVars, geo, html, unit >>

\* the 5000ms timer of a conversion that succeeded
EnableTimer ==
    /\ app.timers > 0
    /\ app' = [app EXCEPT !.timers = @ - 1, !.status = "hidden",
                          !.disabled = FALSE]
    /\ UNCHANGED << convVars, geo, html, unit >>

\* reset: the inputs are cleared, preview and status hidden; the button is
\* not touched
reset ==
    /\ app' = [app EXCEPT !.currentHtml = "", !.sections = FALSE,
                          !.status = "hidden"]
    /\ UNCHANGED << convVars, geo, html, unit >>

InitApp ==
    /\ NoConversion
    /\ app = AppIdle
    /\ html = NoScript
    /\ unit = UnitIdle

NextApp ==
    \/ handleHtmlInput
    \/ PreviewTimer
    \/ convertAndDownload
    \/ ConvertResolves
    \/ ConvertRejects
    \/ EnableTimer
    \/ reset

SpecApp == InitApp /\ [][NextApp]_vars

(***************************************************************************)
(* Geometry of one rectangle: the position calculation of the generator    *)
(* and the size adjustments of its handlers, applied to source rectangles, *)
(* container sizes and aspect ratios drawn from the sets below.            *)
(***************************************************************************)
GeoXs == {-50, 0, 100, 1900, 1920, 2500}
GeoYs == {-20, 0, 500, 1070, 1080, 1500}
GeoWidths == {0, 10, 100, 960, 1920, 3000}
GeoHeights == {0, 10, 100, 1080, 2000}
GeoContainers ==
    { [width |-> 1920, height |-> 1080], [width |-> 960, height |-> 540],
      [width |-> 1024, height |-> 768], [width |-> 800, height |-> 1200] }
GeoAspects == {"16:9", "4:3", "wide"}
\* effective text lengths and font sizes (quarter points) of text boxes
GeoTextLengths == {5, 40}
GeoFontSizes == {48, 176}

GeoSlideW == SLIDE_PRESETS(geo.aspectRatio).width
GeoSlideH == SLIDE_PRESETS(geo.aspectRatio).height

InitGeom ==
    /\ doc = BuildDoc(<<1>>, 0, 1)
    /\ aspect = "16:9"
    /\ phase = "render"
    /\ slides = <<>>
    /\ elements = <<>>
    /\ cursor = 1
    /\ inflight = {}
    /\ attempted = {}
    /\ lastRaster = [el |-> 0, outcome |-> "none"]
    /\ raised = FALSE
    /\ lastContainerSize = NoSize
    /\ calls = <<>>
    /\ slideIdx = 0
    /\ html = NoScript
    /\ unit = UnitIdle
    /\ frameFailed = FALSE
    /\ progress = << >>
    /\ iframe = NoFrame
    /\ app = AppIdle
    /\ geo \in { [stage |-> "input",
                  position |-> [x |-> x, y |-> y, width |-> w, height |-> h],
                  containerSize |-> c,
                  aspectRatio |-> a,
                  result |-> [x |-> 0, y |-> 0, w |-> 0, h |-> 0]] :
                 x \in GeoXs, y \in GeoYs, w \in GeoWidths, h \in GeoHeights,
                 c \in GeoContainers, a \in GeoAspects }

\* a handler computes the position of its element
GeoCalculatePosition ==
    /\ geo.stage = "input"
    /\ geo' = [geo EXCEPT !.stage = "positioned",
                          !.result = calculatePosition(geo.position, geo.containerSize,
                                                       GeoSlideW, GeoSlideH)]
    /\ UNCHANGED pipeVars

\* addTextElement issues the text box with its adjusted width and height
GeoAddText ==
    /\ geo.stage = "positioned"
    /\ \E effLen \in GeoTextLengths, fontSize \in GeoFontSizes :
         LET box == textBox(geo.result, effLen, fontSize, GeoSlideW, GeoSlideH)
         IN  geo' = [geo EXCEPT !.stage = "text",
                                !.result = [geo.result EXCEPT !.w = box.w, !.h = box.h]]
    /\ UNCHANGED pipeVars

\* addContainerElement issues the shape with the computed rectangle
GeoAddShape ==
    /\ geo.stage = "positioned"
    /\ geo' = [geo EXCEPT !.stage = "shape",
                          !.result = [geo.result EXCEPT
                                        !.w = IF geo.result.w # 0 THEN geo.result.w ELSE 2000,
                                        !.h = IF geo.result.h # 0 THEN geo.result.h ELSE 1000]]
    /\ UNCHANGED pipeVars

\* the computed rectangle is given to calculatePosition again, with a
\* container of the size of the slide: the scale is 1 and the offsets are 0
GeoReapply ==
    /\ geo.stage = "positioned"
    /\ geo' = [geo EXCEPT
                 !.stage = "reapplied",
                 !.result = calculatePosition(
                                [x |-> geo.result.x, y |-> geo.result.y,
                                 width |-> geo.result.w, height |-> geo.result.h],
                                [width |-> GeoSlideW, height |-> GeoSlideH],
                                GeoSlideW, GeoSlideH)]
               @@ [first |-> geo.result]
    /\ UNCHANGED pipeVars

NextGeom ==
    \/ GeoCalculatePosition
    \/ GeoAddText
    \/ GeoAddShape
    \/ GeoReapply

SpecGeom == InitGeom /\ [][NextGeom]_vars

GeoEmitted == geo.stage \in {"positioned", "text", "shape"}

\* C1: after the transform and the clamp, and after the later width and
\* height adjustments of the handlers, every emitted rectangle lies within
\* the slide: x >= 0, y >= 0, x + w <= slide width, y + h <= slide height.
C1_RectWithinSlide ==
    GeoEmitted =>
        /\ geo.result.x >= 0
        /\ geo.result.y >= 0
        /\ geo.result.x + geo.result.w <= GeoSlideW
        /\ geo.result.y + geo.result.h <= GeoSlideH

(***************************************************************************)
(* Properties of the conversion                                            *)
(***************************************************************************)
CallIdx == 1..Len(calls)

\* calls made for elements (all but addSlide)
ElementCallIdx == { i \in CallIdx : calls[i].el # 0 }

\* the slide containers of the document: the sibling sections under the body
SlideContainers == SelectSeq(querySelectorAll(doc, slideSelectors[1]),
                             LAMBDA n : doc[n].parent = 0)

\* all slides have been added
Emitted == phase \in {"exporting", "done", "failed"} /\ ~raised

\* C2: draw calls are issued slide by slide in document order, and within
\* a slide an element's call precedes the calls of all its descendants,
\* with siblings in document order.
C2_CallsInTreeOrder ==
    \A i, j \in CallIdx :
        i < j =>
            /\ calls[i].slide <= calls[j].slide
            /\ (calls[i].slide = calls[j].slide /\ calls[j].el # 0) =>
                   /\ calls[i].el <= calls[j].el
                   /\ ~IsAncestor(doc, calls[j].el, calls[i].el)

C2_Witness ==
    /\ phase = "done"
    /\ \E i, j \in ElementCallIdx :
           i < j /\ IsAncestor(doc, calls[i].el, calls[j].el)
    /\ \E i, j \in ElementCallIdx :
           /\ i < j /\ calls[i].slide = calls[j].slide
           /\ doc[calls[i].el].parent = doc[calls[j].el].parent
    /\ \E i \in ElementCallIdx : calls[i].slide = 2

\* C3: a document with N sibling slide containers yields exactly N output
\* slides and the i-th slide is built from the i-th container: nothing is
\* dropped, duplicated or reordered between extraction and emission.
C3_SlidePerContainer ==
    Emitted =>
        /\ Len(slides) = Len(SlideContainers)
        /\ \A i \in 1..Len(slides) : slides[i].root = SlideContainers[i]
        /\ Cardinality({ i \in CallIdx : calls[i].op = "addSlide" })
               = Len(SlideContainers)
        /\ \A k \in 1..Len(SlideContainers) :
               \E i \in CallIdx : calls[i].op = "addSlide" /\ calls[i].slide = k
        /\ \A i \in ElementCallIdx :
               /\ calls[i].slide \in 1..Len(SlideContainers)
               /\ IsAncestor(doc, SlideContainers[calls[i].slide], calls[i].el)

C3_Witness ==
    /\ phase = "done"
    /\ Len(SlideContainers) = 3
    /\ Cardinality({ i \in CallIdx : calls[i].op = "addSlide" }) = 3
    /\ \A k \in 1..3 : \E i \in ElementCallIdx : calls[i].slide = k

\* shorter side of the source box of an element record
ShorterSide(e) == Min(elements[e].position.width, elements[e].position.height)

IsSquare(e) ==
    Abs(elements[e].position.width - elements[e].position.height) < 2

\* C4: a square box (sides differing by less than 2) with radius ratio at
\* least 0.48 is emitted as an ellipse, a box with radius ratio in (0, 0.48)
\* as a rounded rectangle, a box with radius 0 as a plain rectangle.
C4_ShapeDecision ==
    \A i \in CallIdx :
        calls[i].op = "addShape" =>
            LET e == calls[i].el
                r == elements[e].styles.borderRadius
            IN  /\ (IsSquare(e) /\ r * 100 >= 48 * ShorterSide(e))
                       => calls[i].kind = "ellipse"
                /\ (r > 0 /\ r * 100 < 48 * ShorterSide(e))
                       => calls[i].kind = "roundRect"
                /\ (r = 0) => calls[i].kind = "rect"

\* the document of the rounded-corner test: one slide container with one
\* square div (100 x 100, radius 50) and one div with a two-stop gradient
ShapesDoc == BuildDoc(<<2>>, 0, 1)

\* C5: converting that document produces exactly one ellipse shape and
\* exactly one embedded raster image.
C5_OneEllipseOneImage ==
    (doc = ShapesDoc /\ phase = "done" /\ elements[3].gradientImageData = "png") =>
        /\ Cardinality({ i \in CallIdx : calls[i].kind = "ellipse" }) = 1
        /\ Cardinality({ i \in CallIdx : calls[i].op = "addImage" }) = 1

\* font-glyph icons among the element records
FontIcons == { e \in DOMAIN elements : IsIconEligible(elements[e]) }

\* text calls made for an element or for one of its ancestors
TextCallsAbove(e) ==
    { i \in CallIdx : /\ calls[i].op = "addText"
                      /\ (calls[i].el = e \/ IsAncestor(doc, calls[i].el, e)) }

\* C6: for any element classified as an icon no text call carries its glyph
\* name: the text of its record is empty, no text call is made for it, and
\* the glyph name is not in the aggregated text of any ancestor.
C6_NoGlyphText ==
    \A e \in DOMAIN elements :
        elements[e].type = "icon" =>
            /\ elements[e].text = ""
            /\ \A i \in CallIdx : calls[i].op = "addText" => calls[i].el # e
            /\ \A i \in TextCallsAbove(e) :
                   getTextContent(doc, e) \notin SeqToSet(calls[i].text)

C6_Witness ==
    /\ phase = "done"
    /\ \E e \in DOMAIN elements :
           /\ elements[e].type = "icon"
           /\ getTextContent(doc, e) # ""
           /\ \E i \in TextCallsAbove(e) : calls[i].text # <<>>

\* C7: every font-glyph icon to which the rasterization attached an image
\* is emitted as exactly one picture call, and as no text or shape call.
C7_IconEmittedAsPicture ==
    Emitted =>
        \A e \in FontIcons :
            elements[e].iconImageData # "none" =>
                /\ Cardinality({ i \in CallIdx : calls[i].el = e
                                                 /\ calls[i].op = "addImage" }) = 1
                /\ \A i \in CallIdx :
                       calls[i].el = e => calls[i].op = "addImage"

\* whether a DOM node is found for the record of a font icon
HasIconNode(e) ==
    FirstAtPosition(doc, IconElementsFrom(doc, 1), elements[e].position) # 0

IconNodeGlyph(e) ==
    GlyphText(doc, FirstAtPosition(doc, IconElementsFrom(doc, 1),
                                   elements[e].position))

Settled(e) == e \in attempted /\ e \notin inflight

\* C8: when the canvas shows a near-empty bitmap the table of vector paths
\* is tried and a vector image attached; when neither succeeds the icon
\* gets no payload, and an icon without payload gets no call of any kind.
C8_FallbackChain ==
    /\ (lastRaster.outcome = "empty" /\ HasIconNode(lastRaster.el)) =>
           elements[lastRaster.el].iconImageData =
               IF IconNodeGlyph(lastRaster.el) \in MATERIAL_ICON_PATHS
               THEN "svg" ELSE "none"
    /\ \A e \in FontIcons :
           (Settled(e) /\ elements[e].iconImageData = "none") =>
               \A i \in CallIdx : calls[i].el # e

C8_Witness ==
    /\ phase = "done"
    /\ lastRaster.outcome = "empty"
    /\ HasIconNode(lastRaster.el)
    /\ IconNodeGlyph(lastRaster.el) \notin MATERIAL_ICON_PATHS
    /\ elements[lastRaster.el].iconImageData = "none"
    /\ \E e \in FontIcons : elements[e].iconImageData = "svg"

\* elements the two passes have to rasterize
Eligible ==
    { e \in DOMAIN elements :
        IsIconEligible(elements[e]) \/ IsGradientEligible(elements[e]) }

Payload(els, e) == << els[e].iconImageData, els[e].gradientImageData >>

\* the two passes of a frame that did not fail are over
PassesOver ==
    /\ phase \in {"parsed", "generating", "exporting", "done", "failed"}
    /\ ~frameFailed

C9_AllAttempted == PassesOver => ~raised /\ Eligible \subseteq attempted

C9_PayloadsKept ==
    \A e \in DOMAIN elements :
        Payload(elements, e) # << "none", "none" >> =>
            e \in DOMAIN elements' /\ Payload(elements', e) = Payload(elements, e)

\* C9: a failed rasterization (exception or empty result) affects no other
\* element: every eligible element, siblings and descendants of the failing
\* one included, is attempted, attached payloads stay as they are, and the
\* phase ends without raising.
C9_FailureIsolated == [](C9_AllAttempted) /\ [][C9_PayloadsKept]_vars

C9_Witness ==
    /\ phase = "done"
    /\ \E e, c, b \in Eligible :
           /\ Settled(e) /\ Payload(elements, e) = << "none", "none" >>
           /\ IsAncestor(doc, e, c) /\ Payload(elements, c) # << "none", "none" >>
           /\ b > e /\ ~IsAncestor(doc, e, b)
           /\ Payload(elements, b) # << "none", "none" >>

\* C10: at most one rasterization is in flight at any time.
C10_OneInFlight == Cardinality(inflight) <= 1

C10_Witness ==
    /\ Cardinality(inflight) = 1
    /\ Cardinality(attempted) >= 3
    /\ phase = "gradients"

\* C11: when an error is raised while the document is loaded into, or read
\* from, the hosted frame, the conversion aborts: convert() does not resolve
\* with a presentation.
C11_FrameFailureAborts == frameFailed => phase # "done"

AddSlideCalls == Len(SelectSeq(calls, LAMBDA c : c.op = "addSlide"))

\* C12: a conversion that returns a presentation returns one with a slide
\* for every slide of the source; a presentation covering only part of the
\* source slides is never returned.  Checked for the sources whose slides an
\* extraction loop visits one by one.
C12_AllOrNothing ==
    (phase = "done" /\ unit.stage \in {"parsedData", "dynamic"})
        => AddSlideCalls = unit.totalSlides

WrittenArray(h) == <<"[">> \o JoinObjects(h.objects) \o <<"]">>

\* C14: for a script that declares a slides array literal with N > 1
\* objects the extraction returns exactly N slides with indices 0..N-1 in
\* array order, whatever happens to the rendering or parsing of single slides
C14_OneSlidePerObject ==
    (phase = "icons" /\ slidesMatch(html) /\ Len(html.objects) > 1)
        => /\ Len(slides) = Len(html.objects)
           /\ \A k \in 1..Len(slides) : slides[k].index = k - 1

\* C15: brackets and braces inside quoted strings and template literals,
\* escaped quotes included, do not change the nesting depth: the located
\* array ends at the bracket matching its opening bracket, the number of
\* slides reported is the number of objects at the top level of the array,
\* and an array whose brackets never balance yields no result.
C15_ScannerAware ==
    (unit.stage = "scanned" /\ slidesMatch(html)) =>
        IF html.closed
        THEN /\ unit.located = WrittenArray(html)
             /\ Len(unit.parsed.slidesInfo) = Len(html.objects)
        ELSE ~unit.parsed.ok

\* the nodes a selector matches
MatchSet(d, k) == { n \in 1..Len(d) : Matches(d, n, slideSelectors[k]) }

\* the selectors with at least one match
Matching(d) == { k \in 1..Len(slideSelectors) : MatchSet(d, k) # {} }

FirstMatching(d) == CHOOSE k \in Matching(d) : \A j \in Matching(d) : k <= j

\* C16: the slides are exactly the matches of the first selector, in the
\* fixed priority order, that has at least one match, in document order;
\* matches of later selectors are ignored; when no selector matches, the
\* result is one slide built from the body.  At least one slide is returned.
C16_FirstSelectorWins ==
    unit.stage = "parsed" =>
        /\ Len(slides) >= 1
        /\ IF Matching(doc) = {}
           THEN Len(slides) = 1 /\ slides[1].root = 0
           ELSE /\ { slides[i].root : i \in 1..Len(slides) }
                     = MatchSet(doc, FirstMatching(doc))
                /\ \A i \in 1..Len(slides) - 1 :
                       slides[i].root < slides[i + 1].root
        /\ \A i \in 1..Len(slides) : slides[i].index = i - 1

\* a container matched by a later selector is not a slide
C16_Witness ==
    /\ unit.stage = "parsed"
    /\ \E k \in Matching(doc) :
          /\ k # FirstMatching(doc)
          /\ \A i \in 1..Len(slides) : slides[i].root \notin MatchSet(doc, k)

\* the headings under a root
HeadingsUnder(d, root) ==
    { n \in 1..Len(d) : IsAncestor(d, root, n)
                          /\ d[n].tag \in { headingTags[l] : l \in 1..6 } }

TitleHinted(d, root) ==
    { n \in 1..Len(d) : IsAncestor(d, root, n)
                          /\ Includes(ClassStr(d[n].cls),
                                      <<"t", "i", "t", "l", "e">>) }

FirstOf(S) == CHOOSE n \in S : \A m \in S : n <= m

\* C17: the title of a slide is the text of the first heading, of any
\* level, in document order; without a heading it is the text of the first
\* element whose class hints at a title; without either it is a placeholder
C17_TitleFirstHeading ==
    unit.stage = "parsed" =>
        \A i \in 1..Len(slides) :
            LET root == slides[i].root
            IN  slides[i].title =
                  IF HeadingsUnder(doc, root) # {}
                  THEN TextContent(doc, FirstOf(HeadingsUnder(doc, root)))
                  ELSE IF TitleHinted(doc, root) # {}
                  THEN TextContent(doc, FirstOf(TitleHinted(doc, root)))
                  ELSE <<"Slide">>

StartsWith(tok, pre) ==
    Len(tok) >= Len(pre) /\ SubSeq(tok, 1, Len(pre)) = pre

\* a class token names an icon: it is a family name, or it begins with a
\* prefix (a pattern ending in a dash)
TokenIcon(cls) ==
    \E k \in 1..Len(cls), i \in 1..Len(iconClassPatterns) :
        LET pat == iconClassPatterns[i]
        IN  IF pat[Len(pat)] = "-" THEN StartsWith(cls[k], pat)
            ELSE cls[k] = pat

\* C18: an element none of whose class tokens is an icon family name or
\* begins with an icon prefix, and that is neither an i nor an svg element,
\* is not classified as an icon and keeps its text
C18_ClassByToken ==
    unit.stage = "parsed" =>
        \A n \in DOMAIN elements :
            (~TokenIcon(doc[n].cls) /\ doc[n].tag \notin {"i", "svg"})
                => /\ elements[n].type # "icon"
                   /\ elements[n].text = doc[n].txt

\* C19: for a linear gradient with k >= 2 colour stops, written as hex
\* colours or as rgb()/rgba() functions, the parser returns exactly k stops
\* in source order and never returns nothing; for
\* linear-gradient(to bottom, #10b981, #059669) it returns the stops 10B981
\* at 0 and 059669 at 100
C19_AllStopsParsed ==
    (unit.stage = "done" /\ unit.fn = "gradient") =>
        /\ ~unit.result.null
        /\ Len(unit.result.stops) = Len(unit.stops)
        /\ \A i \in 1..Len(unit.stops) :
               unit.result.stops[i].color = StopColors[unit.stops[i]]
        /\ unit.text = "linear-gradient(to bottom, #10b981, #059669)"
             => unit.result.stops = << [color |-> "10B981", position |-> 0],
                                       [color |-> "059669", position |-> 100] >>

\* C20: for a valid 3-, 6- or 8-digit hex colour and a valid rgb()/rgba()
\* colour the result is a string of exactly 6 uppercase hexadecimal
\* digits; for an invalid or empty input the result is absent
C20_SixUpperHex ==
    (unit.stage = "done" /\ unit.fn = "color") =>
        IF unit.kind \in {"hex3", "hex6", "hex8", "rgb", "rgba"}
        THEN /\ ~unit.result.null
             /\ Len(unit.result.value) = 6
             /\ \A i \in 1..Len(unit.result.value) :
                    StrIncludes("0123456789ABCDEF", StrAt(unit.result.value, i))
        ELSE unit.kind = "invalid" => unit.result.null

\* C21: the parsers of style values resolve malformed input to a safe
\* default: whatever the text, the font size parser returns a finite size
\* inside its clamp range of 8 to 96 points, 18 points for a missing value
C21_FontSizeFinite ==
    (unit.stage = "done" /\ unit.fn = "fontSize") =>
        /\ ~unit.result.nan
        /\ unit.result.v >= 32000 /\ unit.result.v <= 384000
        /\ unit.text = "" => unit.result.v = 72000

\* C22: the radius of an emitted shape is the pixel radius of its element
\* converted to inches exactly once (and kept between 0.02 and 0.5 inch)
C22_RadiusConvertedOnce ==
    \A i \in 1..Len(calls) :
        (calls[i].op = "addShape"
           /\ parseBorderRadius(elements[calls[i].el].styles.borderRadius) > 0)
        => calls[i].rectRadius =
             Max(20, Min(pxToInches(parseBorderRadius(
                             elements[calls[i].el].styles.borderRadius)), 500))

\* C23: transforming and clamping a rectangle that was already transformed
\* and clamped, with scale 1 and offsets 0, returns the same x, y, w, h
C23_ClampIdempotent ==
    geo.stage = "reapplied" => geo.result = geo.first

\* the rectangle after the transform and before the clamp
GeoTransformed ==
    StyleConverter_calculatePosition(geo.position, geo.containerSize,
                                     GeoSlideW, GeoSlideH)

\* C24: a rectangle whose origin lies inside the slide on an axis and that
\* passes the far edge on that axis keeps its origin and has its size
\* reduced so that origin + size stays within the slide; an origin inside
\* the slide is never moved
C24_ShrinkNotRelocate ==
    geo.stage = "positioned" =>
        /\ (GeoTransformed.x >= 0 /\ GeoTransformed.x < GeoSlideW)
             => /\ geo.result.x = GeoTransformed.x
                /\ GeoTransformed.x + GeoTransformed.w > GeoSlideW
                     => /\ geo.result.w <= GeoTransformed.w
                        /\ geo.result.x + geo.result.w <= GeoSlideW
        /\ (GeoTransformed.y >= 0 /\ GeoTransformed.y < GeoSlideH)
             => /\ geo.result.y = GeoTransformed.y
                /\ GeoTransformed.y + GeoTransformed.h > GeoSlideH
                     => /\ geo.result.h <= GeoTransformed.h
                        /\ geo.result.y + geo.result.h <= GeoSlideH

\* the font size of an element by its own style and kind alone
OwnFontSize(el) ==
    IF el.type = "heading" THEN headingSizes(headingLevel(el.tagName))
    ELSE parseFontSize(el.styles.fontSize)

\* C25: the font size of every emitted text call is given by the element's
\* own font size and kind, whatever the slide size, the container size and
\* the scale between them
C25_FontSizeNotRescaled ==
    \A i \in 1..Len(calls) :
        calls[i].op = "addText"
            => calls[i].fontSize = OwnFontSize(elements[calls[i].el])

\* text of a styled element and of a heading was emitted on a 4:3 slide,
\* whose scale differs from that of the 16:9 slide
C25_Witness ==
    /\ aspect = "4:3"
    /\ \E i \in 1..Len(calls) :
         /\ calls[i].op = "addText"
         /\ elements[calls[i].el].type # "heading"
         /\ elements[calls[i].el].styles.fontSize # 0
    /\ \E i \in 1..Len(calls) :
         /\ calls[i].op = "addText"
         /\ elements[calls[i].el].type = "heading"

\* C26: the value none, and every value that is all 0s alone or followed by
\* further tokens, gives the empty list of transitions
C26_ZeroDurationIsNone ==
    (/\ unit.stage = "done" /\ unit.fn = "transition"
     /\ \/ unit.text = "none"
        \/ unit.text = "all 0s"
        \/ StartsWith(unit.text, "all 0s "))
        => unit.result = << >>

\* the elements whose own text collectAllText gathers under an element
RECURSIVE CollectedFrom(_, _)
CollectedFrom(els, e) ==
    IF els[e].type = "icon" THEN {}
    ELSE (IF els[e].text # "" /\ ~isIconText(els[e].text) THEN {e} ELSE {})
         \cup UNION { CollectedFrom(els, els[e].children[k]) :
                        k \in 1..Len(els[e].children) }

\* the elements whose text a text call carries: the element's own text, or
\* the texts gathered from its descendants when it has none
TextSources(c) ==
    IF elements[c.el].text # "" THEN {c.el} ELSE CollectedFrom(elements, c.el)

\* C27: no element's text is carried by two text calls
C27_TextEmittedOnce ==
    \A i, j \in 1..Len(calls) :
        (i < j /\ calls[i].op = "addText" /\ calls[j].op = "addText")
            => TextSources(calls[i]) \cap TextSources(calls[j]) = {}

\* C28: with at least one slide, the reports and timer firings of the
\* generator alternate: the k-th report of the loop carries current = k and
\* is made when k - 1 slides were added, a timer firing follows every
\* slide, and one last report (total, total) is made after the last slide
\* and before the export; nothing else is reported
C28_ProgressInOrder ==
    (Len(slides) >= 1 /\ phase \in {"generating", "exporting", "done", "failed"}) =>
        /\ Len(progress) <= 2 * Len(slides) + 1
        /\ phase = "generating" => Len(progress) = 2 * slideIdx - 1
        /\ phase # "generating" => Len(progress) = 2 * Len(slides) + 1
        /\ \A k \in 1..Len(progress) :
             IF k % 2 = 0
             THEN progress[k] = timerFired(k \div 2)
             ELSE IF k < 2 * Len(slides) + 1
             THEN progress[k] = onProgress((k + 1) \div 2, Len(slides), (k - 1) \div 2)
             ELSE progress[k] = onProgress(Len(slides), Len(slides), Len(slides))
        /\ \A k \in 1..Len(progress) :
             progress[k].op = "onProgress"
                 => progress[k].current >= 1 /\ progress[k].current <= progress[k].total

\* a presentation of two slides or more was generated and exported
C28_Witness ==
    /\ phase = "done"
    /\ Len(slides) >= 2
    /\ Len(SelectSeq(progress, LAMBDA c : c.op = "onProgress")) = Len(slides) + 1

\* a rasterization pass has a step to take: the rasterization awaited
\* settles, the next one starts, or the pass returns
PassPending(kind) ==
    \/ inflight # {}
    \/ CanStartNext(inflight) /\ cursor <= Len(Work(slides, elements, kind))
    \/ inflight = {} /\ cursor > Len(Work(slides, elements, kind))

\* a step of renderAndParse is pending: a timer, the race for the fonts,
\* the extraction, or a step of a rasterization pass
StepPending ==
    CASE phase \in {"settle", "scripts"} -> TRUE
      [] phase = "fonts" -> "timer" \in FontRace
      [] phase = "render" -> ~usesParsedData(html) /\ ~usesDynamicSlides(html)
      [] phase = "icons" -> PassPending("icon")
      [] phase = "gradients" -> PassPending("gradient")
      [] OTHER -> FALSE

\* renderAndParse has resolved
Resolved == phase \in {"parsed", "generating", "exporting", "done", "failed"}

C29_WitnessCatch == Resolved /\ (raised \/ frameFailed) /\ iframe.removed = 1

C30_OneConversion ==
    /\ app.running <= 1
    /\ app.running = 1 => app.disabled /\ app.timers = 0
    /\ (app.running = 0 /\ app.timers = 0) => ~app.disabled

\* a second conversion runs after a first one succeeded and its timer fired
C30_Witness ==
    app.running = 1 /\ app.finished >= 1 /\ app.disabled /\ app.currentHtml = ""

=============================================================================
